---- MODULE Spec2Model ----
(***************************************************************************)
(* Verification model of the YouTube job pipeline of the voice backend     *)
(* (apps/voice-backend/youtube_pipeline.py): the job store, the admission  *)
(* semaphore, the cancel path and the per-job worker thread.               *)
(*                                                                         *)
(* Threads are interleaved at the granularity of the store lock and of     *)
(* the blocking calls: each action is one critical section of the lock,    *)
(* or one blocking call (semaphore poll, communicate poll, STT callback,   *)
(* generation request) together with the thread-local code around it.      *)
(* progress is kept in hundredths (0.05 is 5, 1.0 is 100).                 *)
(***************************************************************************)
EXTENDS Integers, Sequences, FiniteSets

VARIABLES
    jobs,            \* keys of YouTubeJobManager._jobs
    order,           \* YouTubeJobManager._order (FIFO of job ids)
    semaphore,       \* free permits of YouTubeJobManager._semaphore
    next_id,         \* number of job ids handed out so far (uuid4 is fresh)
    now,             \* time.time(), in model ticks
    job,             \* the YouTubeJob objects, by id
    pc,              \* position of each job's worker thread
    slot_acquired,   \* local of _run_job_worker
    exc,             \* exception in flight in the worker
    cmd,             \* which command _run_command is running
    proc,            \* state of the child process of the worker
    transcript,      \* local transcript_text of _execute_pipeline
    starting,        \* the start_job call that has not returned yet: the id
                     \* of its job, or the code of the error it raises
    cancel_seen,     \* history: a cancel_job call terminated the live child
                     \* process attached to this job
    gen,             \* the call of a function under study: the function,
                     \* its arguments, the scripted model responses and
                     \* what the function has done so far
    llm_calls,       \* history: generation requests the worker has sent in
                     \* the stage it is in
    srv              \* the voice server: its ProviderRegistry, the providers
                     \* built so far and the request threads

vars == <<jobs, order, semaphore, next_id, now, job, pc, slot_acquired, exc,
          cmd, proc, transcript, starting, cancel_seen, gen, llm_calls, srv>>

(***************************************************************************)
(* Bounds of the model                                                     *)
(***************************************************************************)
MaxJobs == 2        \* start_job calls explored
MaxNow == 1         \* clock ticks explored
max_history == 1    \* ST_YOUTUBE_JOB_HISTORY_MAX, scaled to the job bound
ttl_seconds == 0    \* ST_YOUTUBE_JOB_TTL_SECONDS, in clock ticks

(***************************************************************************)
(* Program constants                                                       *)
(***************************************************************************)
max_concurrent == 1

JobIds == 1..MaxJobs
Terminal == {"Done", "Failed", "Cancelled"}
NoError == [code |-> "", message |-> "", details |-> ""]
NoExc == [code |-> "", message |-> "", details |-> ""]

PipelineError(code, message, details) ==
    [code |-> code, message |-> message, details |-> details]

\* An exception that is not a PipelineError (caught by `except Exception`).
Unexpected == [code |-> "Exception", message |-> "", details |-> ""]

YouTubeJob ==
    [status |-> "Queued", stage |-> "Resolving", progress |-> 0,
     updated_ts |-> 0, video_id |-> "", output_dir |-> "",
     transcript_path |-> "",
     summary |-> "", error |-> NoError,
     cancel_event |-> FALSE, active_process |-> FALSE]

_is_terminal(j) == job[j].status \in Terminal

None == [none |-> TRUE]

\* No start_job call is in progress.
NoCall == [id |-> 0, raised |-> ""]

\* No call of a function is under study.
NoGen == [fn |-> "none"]

\* No request has reached the voice server.
NoSrv == [requests |-> 0]

\* The messages of the two cancellations of a job that has not started.
BeforeStart == "Cancelled before execution started."
WhileWaiting == "Job cancelled while waiting for execution slot."

\* Positions of a worker that has not been admitted yet.
Admission == {"start", "wait", "acquire"}

Clamp(p) == IF p > 100 THEN 100 ELSE p


(***************************************************************************)
(* Pure helpers                                                            *)
(***************************************************************************)
\* Strings are sequences of tokens: a URL is its scheme, its host and the
\* pieces of its path; " " is white space.
Urls ==
    { <<>>, <<" ">>,
      <<"https://", "youtube.com/", "watch">>,
      <<" ", "HTTPS://", "YouTu.be/", "x", " ">>,
      <<"ftp://", "youtube.com/", "watch">>,
      <<"https://", "example.com/", "video">>,
      <<"https://", "example.com/", "youtu.be/">> }

AsrModels == {<<>>, <<" ">>, <<"base">>}

\* str.strip(): leading and trailing white space removed.
RECURSIVE strip(_)
strip(str) ==
    IF str = <<>> THEN str
    ELSE IF Head(str) = " " THEN strip(Tail(str))
    ELSE IF str[Len(str)] = " " THEN strip(SubSeq(str, 1, Len(str) - 1))
    ELSE str

\* str.lower()
lower(str) ==
    [i \in 1..Len(str) |->
       IF str[i] = "HTTPS://" THEN "https://"
       ELSE IF str[i] = "YouTu.be/" THEN "youtu.be/"
       ELSE IF str[i] = "Hook" THEN "hook"
       ELSE IF str[i] = "Quote A" THEN "quote a"
       ELSE IF str[i] = "Value hook " THEN "value hook "
       ELSE IF str[i] = "Generated fallback hook."
            THEN "generated fallback hook."
       ELSE IF str[i] = "Actionable takeaway identified."
            THEN "actionable takeaway identified."
       ELSE IF str[i] = "No supporting quote provided."
            THEN "no supporting quote provided."
       ELSE str[i]]

\* `needle in str`
contains(str, needle) == \E i \in 1..Len(str) : str[i] = needle

_is_youtube_url(url) ==
    LET lowered == lower(strip(url))
    IN IF lowered = <<>> \/ lowered[1] \notin {"http://", "https://"}
       THEN FALSE
       ELSE contains(lowered, "youtube.com/") \/ contains(lowered, "youtu.be/")

_to_response(j) ==
    [jobId |-> j,
     status |-> job[j].status,
     stage |-> job[j].stage,
     progress |-> job[j].progress,
     videoId |-> job[j].video_id,
     outputDir |-> job[j].output_dir,
     transcriptPath |-> job[j].transcript_path,
     summary |-> job[j].summary,
     error |-> job[j].error,
     updatedAtUtc |-> job[j].updated_ts]

(***************************************************************************)
(* Store transitions, each taken with the store lock held                  *)
(***************************************************************************)
\* _set_stage without its terminal check.
_set_stage_unguarded(j, stage, progress, status) ==
    [job EXCEPT ![j].stage = stage,
                ![j].status = status,
                ![j].progress = Clamp(progress),
                ![j].updated_ts = now]

_set_stage(j, stage, progress, status) ==
    IF _is_terminal(j)
    THEN job
    ELSE [job EXCEPT ![j].stage = stage,
                     ![j].status = status,
                     ![j].progress = Clamp(progress),
                     ![j].updated_ts = now]

\* _mark_done that leaves progress where the last stage put it.
_mark_done_keeps_progress(j, text) ==
    IF _is_terminal(j)
    THEN job
    ELSE [job EXCEPT ![j].status = "Done",
                     ![j].stage = "Done",
                     ![j].summary = text,
                     ![j].error = NoError,
                     ![j].updated_ts = now]

_mark_done(j, text) ==
    IF _is_terminal(j)
    THEN job
    ELSE [job EXCEPT ![j].status = "Done",
                     ![j].stage = "Done",
                     ![j].progress = 100,
                     ![j].summary = text,
                     ![j].error = NoError,
                     ![j].updated_ts = now]

\* _mark_cancelled_locked that resets progress instead of keeping it.
_mark_cancelled_locked_reset(jb, j, message) ==
    IF jb[j].status \in Terminal
    THEN jb
    ELSE [jb EXCEPT ![j].status = "Cancelled",
                    ![j].stage = "Cancelled",
                    ![j].error = PipelineError("JOB_CANCELLED", message, ""),
                    ![j].progress = 0,
                    ![j].updated_ts = now]

_mark_cancelled_locked(jb, j, message) ==
    IF jb[j].status \in Terminal
    THEN jb
    ELSE [jb EXCEPT ![j].status = "Cancelled",
                    ![j].stage = "Cancelled",
                    ![j].error = PipelineError("JOB_CANCELLED", message, ""),
                    ![j].progress = Clamp(jb[j].progress),
                    ![j].updated_ts = now]

_mark_cancelled(j, message) == _mark_cancelled_locked(job, j, message)

_mark_failed(j, code, message, details) ==
    IF _is_terminal(j)
    THEN job
    ELSE [job EXCEPT ![j].status = "Failed",
                     ![j].stage = "Failed",
                     ![j].error = PipelineError(code, message, details),
                     ![j].updated_ts = now]

\* process.terminate() and wait(5), kill() on expiry: a live child ends killed.
_terminate_process(p) == IF p = "running" THEN "killed" ELSE p

\* A TTL pass that does not look at the status.
StaleIds_any_status ==
    { id \in jobs : /\ \E i \in 1..Len(order) : order[i] = id
                    /\ now > job[id].updated_ts + ttl_seconds }

\* The TTL pass of _evict_locked: the ids it drops.
StaleIds ==
    { id \in jobs : /\ \E i \in 1..Len(order) : order[i] = id
                    /\ _is_terminal(id)
                    /\ now > job[id].updated_ts + ttl_seconds }

\* The history-cap loop of _evict_locked.
RECURSIVE EvictCap(_, _)
EvictCap(js, ord) ==
    IF Len(ord) > max_history
    THEN IF Head(ord) \in js /\ ~_is_terminal(Head(ord))
         THEN [jobs |-> js, order |-> ord]
         ELSE EvictCap(js \ {Head(ord)}, Tail(ord))
    ELSE [jobs |-> js, order |-> ord]

_evict_locked ==
    EvictCap(jobs \ StaleIds, SelectSeq(order, LAMBDA id : id \notin StaleIds))

(***************************************************************************)
(* Initial state: the manager right after __init__                         *)
(***************************************************************************)
\* The manager after __init__.
StoreInit ==
    /\ jobs = {}
    /\ order = <<>>
    /\ semaphore = max_concurrent
    /\ next_id = 0
    /\ now = 0
    /\ job = [j \in JobIds |-> YouTubeJob]
    /\ pc = [j \in JobIds |-> "none"]
    /\ slot_acquired = [j \in JobIds |-> FALSE]
    /\ exc = [j \in JobIds |-> NoExc]
    /\ cmd = [j \in JobIds |-> ""]
    /\ proc = [j \in JobIds |-> "none"]
    /\ transcript = [j \in JobIds |-> ""]
    /\ starting = NoCall
    /\ cancel_seen = [j \in JobIds |-> FALSE]
    /\ llm_calls = [j \in JobIds |-> 0]

Init == StoreInit /\ gen = NoGen /\ srv = NoSrv

(***************************************************************************)
(* API calls                                                               *)
(***************************************************************************)
\* The checks at the head of start_job: the code of the PipelineError they
\* raise, "" when they pass.
start_job_raises(video_url, asr_model) ==
    IF video_url = <<>> \/ strip(video_url) = <<>> THEN "INVALID_URL"
    ELSE IF ~_is_youtube_url(video_url) THEN "INVALID_URL"
    ELSE IF asr_model = <<>> \/ strip(asr_model) = <<>>
         THEN "ASR_MODEL_UNAVAILABLE"
    ELSE ""

\* start_job up to worker.start(), or up to the raise: validation, the new job, eviction and
\* insertion under the lock, and the worker thread.
start_job(video_url, asr_model) ==
    /\ starting = NoCall
    /\ next_id < MaxJobs
    /\ IF start_job_raises(video_url, asr_model) # ""
       THEN /\ starting' = [id |-> 0,
                            raised |-> start_job_raises(video_url, asr_model)]
            /\ UNCHANGED <<jobs, order, semaphore, next_id, now, job, pc,
                           slot_acquired, exc, cmd, proc, transcript,
                           cancel_seen, gen, llm_calls, srv>>
       ELSE LET id == next_id + 1
                ev == _evict_locked
            IN /\ next_id' = id
               /\ job' = [job EXCEPT ![id].updated_ts = now]
               /\ jobs' = ev.jobs \cup {id}
               /\ order' = Append(ev.order, id)
               /\ pc' = [pc EXCEPT ![id] = "start"]
               /\ starting' = [id |-> id, raised |-> ""]
               /\ UNCHANGED <<semaphore, now, slot_acquired, exc, cmd, proc,
                              transcript, cancel_seen, gen, llm_calls, srv>>

\* The view start_job returns, read from the job after the lock is released
\* and the worker is running.
start_job_result ==
    IF starting.id \in JobIds THEN _to_response(starting.id) ELSE None

\* start_job returning to its caller.
start_job_return ==
    /\ starting # NoCall
    /\ starting' = NoCall
    /\ UNCHANGED <<jobs, order, semaphore, next_id, now, job, pc,
                   slot_acquired, exc, cmd, proc, transcript, cancel_seen,
                   gen, llm_calls, srv>>

\* The value get_job returns: None or the view of the job.
get_job_result(j) ==
    IF j \in _evict_locked.jobs THEN _to_response(j) ELSE None

\* Callers hold the ids that start_job has returned.
get_job(j) ==
    /\ j <= next_id
    /\ j # starting.id
    /\ jobs' = _evict_locked.jobs
    /\ order' = _evict_locked.order
    /\ UNCHANGED <<semaphore, next_id, now, job, pc, slot_acquired, exc, cmd,
                   proc, transcript, starting, cancel_seen, gen, llm_calls,
                   srv>>

\* _kill_active_process_locked, on the job and on its child process.
_kill_active_process_locked(jb, j) == [jb EXCEPT ![j].active_process = FALSE]

KilledProcess(j) ==
    IF job[j].active_process THEN _terminate_process(proc[j]) ELSE proc[j]

\* cancel_job that only raises the signal of a Queued job and leaves the
\* transition to the worker.
cancel_job_effect_deferred(j) ==
    IF j \notin jobs \/ _is_terminal(j)
    THEN job
    ELSE LET signalled == [job EXCEPT ![j].cancel_event = TRUE]
             killed == _kill_active_process_locked(signalled, j)
         IN [killed EXCEPT ![j].updated_ts = now]

\* cancel_job without the early return on a terminal job.
cancel_job_effect_no_return(j) ==
    IF j \notin jobs
    THEN job
    ELSE LET signalled == [job EXCEPT ![j].cancel_event = TRUE]
             killed == _kill_active_process_locked(signalled, j)
         IN IF job[j].status = "Queued"
            THEN _mark_cancelled_locked(killed, j, BeforeStart)
            ELSE [killed EXCEPT ![j].updated_ts = now]

\* The job objects after cancel_job(j).
cancel_job_effect(j) ==
    IF j \notin jobs \/ _is_terminal(j)
    THEN job
    ELSE LET signalled == [job EXCEPT ![j].cancel_event = TRUE]
             killed == _kill_active_process_locked(signalled, j)
         IN IF job[j].status = "Queued"
            THEN _mark_cancelled_locked(killed, j, BeforeStart)
            ELSE [killed EXCEPT ![j].updated_ts = now]

\* The value cancel_job returns: None or the view of the job after the call.
cancel_job_result(j) ==
    IF j \in jobs THEN [_to_response(j) EXCEPT
                           !.status = cancel_job_effect(j)[j].status,
                           !.stage = cancel_job_effect(j)[j].stage,
                           !.progress = cancel_job_effect(j)[j].progress,
                           !.error = cancel_job_effect(j)[j].error,
                           !.updatedAtUtc = cancel_job_effect(j)[j].updated_ts]
    ELSE None

cancel_job(j) ==
    /\ j <= next_id
    /\ j # starting.id
    /\ job' = cancel_job_effect(j)
    /\ proc' = IF j \notin jobs \/ _is_terminal(j)
               THEN proc
               ELSE [proc EXCEPT ![j] = KilledProcess(j)]
    /\ cancel_seen' =
         IF j \in jobs /\ ~_is_terminal(j) /\ job[j].active_process
            /\ proc[j] = "running"
         THEN [cancel_seen EXCEPT ![j] = TRUE]
         ELSE cancel_seen
    /\ UNCHANGED <<jobs, order, semaphore, next_id, now, pc, slot_acquired,
                   exc, cmd, transcript, starting, gen, llm_calls, srv>>

\* time.time() advancing.
Tick ==
    /\ now < MaxNow
    /\ now' = now + 1
    /\ UNCHANGED <<jobs, order, semaphore, next_id, job, pc, slot_acquired,
                   exc, cmd, proc, transcript, starting, cancel_seen, gen,
                   llm_calls, srv>>

(***************************************************************************)
(* The worker thread of job j: _run_job_worker                             *)
(***************************************************************************)
Goto(j, label) == pc' = [pc EXCEPT ![j] = label]

\* raise e: control passes to the except clauses of _run_job_worker.
Raise(j, e) ==
    /\ exc' = [exc EXCEPT ![j] = e]
    /\ Goto(j, "handler")

Cancelled == PipelineError("JOB_CANCELLED", "Job cancelled by user.", "")

\* job = self._get_job_internal(job_id); if job is None: return
worker_start(j) ==
    /\ pc[j] = "start"
    /\ Goto(j, IF j \in jobs THEN "wait" ELSE "finished")
    /\ UNCHANGED <<jobs, order, semaphore, next_id, now, job, slot_acquired,
                   exc, cmd, proc, transcript, starting, cancel_seen, gen,
                   llm_calls, srv>>

\* while not job.cancel_event.is_set():
wait_check(j) ==
    /\ pc[j] = "wait"
    /\ Goto(j, IF job[j].cancel_event THEN "wait_cancelled" ELSE "acquire")
    /\ UNCHANGED <<jobs, order, semaphore, next_id, now, job, slot_acquired,
                   exc, cmd, proc, transcript, starting, cancel_seen, gen,
                   llm_calls, srv>>

\* An admission loop that leaves without holding a permit.
acquire_without_permit(j) ==
    /\ pc[j] = "acquire"
    /\ semaphore' = IF semaphore > 0 THEN semaphore - 1 ELSE semaphore
    /\ slot_acquired' = [slot_acquired EXCEPT ![j] = semaphore > 0]
    /\ Goto(j, "set_running")
    /\ UNCHANGED <<jobs, order, next_id, now, job, exc, cmd, proc, transcript,
                   starting, cancel_seen, gen, llm_calls, srv>>

\* self._semaphore.acquire(timeout=0.25): a permit, or the poll times out.
acquire(j) ==
    /\ pc[j] = "acquire"
    /\ IF semaphore > 0
       THEN /\ semaphore' = semaphore - 1
            /\ slot_acquired' = [slot_acquired EXCEPT ![j] = TRUE]
            /\ Goto(j, "set_running")
       ELSE /\ Goto(j, "wait")
            /\ UNCHANGED <<semaphore, slot_acquired>>
    /\ UNCHANGED <<jobs, order, next_id, now, job, exc, cmd, proc, transcript,
                   starting, cancel_seen, gen, llm_calls, srv>>

\* if not slot_acquired: self._mark_cancelled(...); return
wait_cancelled(j) ==
    /\ pc[j] = "wait_cancelled"
    /\ job' = _mark_cancelled(j, WhileWaiting)
    /\ Goto(j, "finally")
    /\ UNCHANGED <<jobs, order, semaphore, next_id, now, slot_acquired, exc,
                   cmd, proc, transcript, starting, cancel_seen, gen,
                   llm_calls, srv>>

\* self._set_stage(job, "Resolving", 0.05, status="Running")
set_running(j) ==
    /\ pc[j] = "set_running"
    /\ job' = _set_stage(j, "Resolving", 5, "Running")
    /\ Goto(j, "deps")
    /\ UNCHANGED <<jobs, order, semaphore, next_id, now, slot_acquired, exc,
                   cmd, proc, transcript, starting, cancel_seen, gen,
                   llm_calls, srv>>

\* dependency_status() and the tool lookups at the head of _execute_pipeline.
deps(j) ==
    /\ pc[j] = "deps"
    /\ \E ready \in BOOLEAN :
         IF ready
         THEN /\ cmd' = [cmd EXCEPT ![j] = "resolve"]
              /\ Goto(j, "popen")
              /\ UNCHANGED exc
         ELSE /\ Raise(j, PipelineError("DEPENDENCY_MISSING", "tools missing", "dep"))
              /\ UNCHANGED cmd
    /\ UNCHANGED <<jobs, order, semaphore, next_id, now, job, slot_acquired,
                   proc, transcript, starting, cancel_seen, gen, llm_calls,
                   srv>>

(***************************************************************************)
(* _run_command                                                            *)
(***************************************************************************)
\* One generic code for every command.
failure_code_generic(c) == "COMMAND_TIMEOUT"

\* The failure_code argument of each _run_command call.
failure_code(c) ==
    IF c = "resolve" THEN "INVALID_URL"
    ELSE IF c = "download" THEN "YOUTUBE_DOWNLOAD_FAILED"
    ELSE "AUDIO_CONVERT_FAILED"

\* process = subprocess.Popen(...): the child runs, or Popen raises OSError.
popen(j) ==
    /\ pc[j] = "popen"
    /\ \E spawned \in BOOLEAN :
         IF spawned
         THEN /\ proc' = [proc EXCEPT ![j] = "running"]
              /\ Goto(j, "attach")
              /\ UNCHANGED exc
         ELSE /\ Raise(j, Unexpected)
              /\ UNCHANGED proc
    /\ UNCHANGED <<jobs, order, semaphore, next_id, now, job, slot_acquired,
                   cmd, transcript, starting, cancel_seen, gen, llm_calls,
                   srv>>

\* self._attach_process(job, process)
_attach_process(j) ==
    /\ pc[j] = "attach"
    /\ job' = [job EXCEPT ![j].active_process = TRUE]
    /\ Goto(j, "poll")
    /\ UNCHANGED <<jobs, order, semaphore, next_id, now, slot_acquired, exc,
                   cmd, proc, transcript, starting, cancel_seen, gen,
                   llm_calls, srv>>

\* Head of the drain loop: the cancel check, then the deadline check.
poll(j) ==
    /\ pc[j] = "poll"
    /\ IF job[j].cancel_event
       THEN /\ proc' = [proc EXCEPT ![j] = _terminate_process(proc[j])]
            /\ exc' = [exc EXCEPT ![j] = Cancelled]
            /\ Goto(j, "detach")
       ELSE \E timed_out \in BOOLEAN :
              IF timed_out
              THEN /\ proc' = [proc EXCEPT ![j] = _terminate_process(proc[j])]
                   /\ exc' = [exc EXCEPT ![j] =
                                PipelineError(failure_code(cmd[j]),
                                              "Timeout", "timeoutSec")]
                   /\ Goto(j, "detach")
              ELSE /\ Goto(j, "communicate")
                   /\ UNCHANGED <<proc, exc>>
    /\ UNCHANGED <<jobs, order, semaphore, next_id, now, job, slot_acquired,
                   cmd, transcript, starting, cancel_seen, gen, llm_calls,
                   srv>>

\* process.communicate(timeout=0.2): the outputs of an ended child (break),
\* or TimeoutExpired (continue).
communicate(j) ==
    /\ pc[j] = "communicate"
    /\ Goto(j, IF proc[j] = "running" THEN "poll" ELSE "detach")
    /\ UNCHANGED <<jobs, order, semaphore, next_id, now, job, slot_acquired,
                   exc, cmd, proc, transcript, starting, cancel_seen, gen,
                   llm_calls, srv>>

\* The child process ending by itself, with exit code 0 or not.
child_exit(j) ==
    /\ proc[j] = "running"
    /\ \E code \in {"exit0", "exit1"} : proc' = [proc EXCEPT ![j] = code]
    /\ UNCHANGED <<jobs, order, semaphore, next_id, now, job, pc,
                   slot_acquired, exc, cmd, transcript, starting, cancel_seen,
                   gen, llm_calls, srv>>

\* A pipeline that downloads again after the conversion.
after_command_restarts(c) ==
    IF c = "resolve" THEN "meta_video"
    ELSE IF c = "download" THEN "stage_convert"
    ELSE "stage_download"

\* Where _execute_pipeline continues after a command that returned.
after_command(c) ==
    IF c = "resolve" THEN "meta_video"
    ELSE IF c = "download" THEN "stage_convert"
    ELSE "stage_transcribing"

\* A _run_command that detaches after the loop instead of in a finally
\* clause: an exception raised in the loop leaves the process attached.
_detach_process_after_loop(j) ==
    /\ pc[j] = "detach"
    /\ job' = IF exc[j] # NoExc
              THEN job
              ELSE [job EXCEPT ![j].active_process = FALSE]
    /\ proc' = [proc EXCEPT ![j] = "none"]
    /\ IF exc[j] # NoExc
       THEN /\ Goto(j, "handler")
            /\ UNCHANGED exc
       ELSE IF proc[j] = "exit0"
            THEN /\ Goto(j, after_command(cmd[j]))
                 /\ UNCHANGED exc
            ELSE Raise(j, PipelineError(failure_code(cmd[j]), "failed", "exitCode"))
    /\ UNCHANGED <<jobs, order, semaphore, next_id, now, slot_acquired, cmd,
                   transcript, starting, cancel_seen, gen, llm_calls, srv>>

\* finally: self._detach_process(job); then the exception in flight, or the
\* returncode check.
_detach_process(j) ==
    /\ pc[j] = "detach"
    /\ job' = [job EXCEPT ![j].active_process = FALSE]
    /\ proc' = [proc EXCEPT ![j] = "none"]
    /\ IF exc[j] # NoExc
       THEN /\ Goto(j, "handler")
            /\ UNCHANGED exc
       ELSE IF proc[j] = "exit0"
            THEN /\ Goto(j, after_command(cmd[j]))
                 /\ UNCHANGED exc
            ELSE Raise(j, PipelineError(failure_code(cmd[j]), "failed", "exitCode"))
    /\ UNCHANGED <<jobs, order, semaphore, next_id, now, slot_acquired, cmd,
                   transcript, starting, cancel_seen, gen, llm_calls, srv>>

(***************************************************************************)
(* _execute_pipeline                                                       *)
(***************************************************************************)
\* json.loads(stdout), the sanitized id, and the unlocked writes of
\* job.video_id, title, channel and duration_sec.
meta_video(j) ==
    /\ pc[j] = "meta_video"
    /\ \E r \in {"ok", "invalid_json", "bad_duration"} :
         IF r = "ok"
         THEN /\ job' = [job EXCEPT ![j].video_id = "vid"]
              /\ Goto(j, "meta_paths")
              /\ UNCHANGED exc
         ELSE /\ Raise(j, IF r = "invalid_json"
                          THEN PipelineError("INVALID_URL", "not JSON", "message")
                          ELSE Unexpected)
              /\ UNCHANGED job
    /\ UNCHANGED <<jobs, order, semaphore, next_id, now, slot_acquired, cmd,
                   proc, transcript, starting, cancel_seen, gen, llm_calls,
                   srv>>

\* mkdir of the output directory and the unlocked write of job.output_dir.
meta_paths(j) ==
    /\ pc[j] = "meta_paths"
    /\ \E made \in BOOLEAN :
         IF made
         THEN /\ job' = [job EXCEPT ![j].output_dir = "dir"]
              /\ Goto(j, "meta_artifacts")
              /\ UNCHANGED exc
         ELSE /\ Raise(j, Unexpected)
              /\ UNCHANGED job
    /\ UNCHANGED <<jobs, order, semaphore, next_id, now, slot_acquired, cmd,
                   proc, transcript, starting, cancel_seen, gen, llm_calls,
                   srv>>

\* The unlocked writes of job.transcript_path and the other artifact paths,
\* and _write_metadata.
meta_artifacts(j) ==
    /\ pc[j] = "meta_artifacts"
    /\ job' = [job EXCEPT ![j].transcript_path = "dir/transcript.txt"]
    /\ \E written \in BOOLEAN :
         IF written
         THEN Goto(j, "stage_download") /\ UNCHANGED exc
         ELSE Raise(j, Unexpected)
    /\ UNCHANGED <<jobs, order, semaphore, next_id, now, slot_acquired, cmd,
                   proc, transcript, starting, cancel_seen, gen, llm_calls,
                   srv>>

stage_download(j) ==
    /\ pc[j] = "stage_download"
    /\ job' = _set_stage(j, "DownloadingAudio", 12, "Running")
    /\ cmd' = [cmd EXCEPT ![j] = "download"]
    /\ Goto(j, "popen")
    /\ UNCHANGED <<jobs, order, semaphore, next_id, now, slot_acquired, exc,
                   proc, transcript, starting, cancel_seen, gen, llm_calls,
                   srv>>

\* The source file check, then ConvertingAudio.
stage_convert(j) ==
    /\ pc[j] = "stage_convert"
    /\ \E has_source \in BOOLEAN :
         IF has_source
         THEN /\ job' = _set_stage(j, "ConvertingAudio", 20, "Running")
              /\ cmd' = [cmd EXCEPT ![j] = "convert"]
              /\ Goto(j, "popen")
              /\ UNCHANGED exc
         ELSE /\ Raise(j, PipelineError("YOUTUBE_DOWNLOAD_FAILED", "no source file", ""))
              /\ UNCHANGED <<job, cmd>>
    /\ UNCHANGED <<jobs, order, semaphore, next_id, now, slot_acquired, proc,
                   transcript, starting, cancel_seen, gen, llm_calls, srv>>

\* The wav check, Transcribing, the cancel check and read_bytes().
stage_transcribing(j) ==
    /\ pc[j] = "stage_transcribing"
    /\ \E r \in {"ok", "no_wav", "unreadable"} :
         IF r = "no_wav"
         THEN /\ Raise(j, PipelineError("AUDIO_CONVERT_FAILED", "no wav file", ""))
              /\ UNCHANGED job
         ELSE /\ job' = _set_stage(j, "Transcribing", 35, "Running")
              /\ IF job[j].cancel_event
                 THEN Raise(j, Cancelled)
                 ELSE IF r = "unreadable"
                      THEN Raise(j, PipelineError("IO_WRITE_FAILED", "read audio", "message"))
                      ELSE Goto(j, "transcribe") /\ UNCHANGED exc
    /\ UNCHANGED <<jobs, order, semaphore, next_id, now, slot_acquired, cmd,
                   proc, transcript, starting, cancel_seen, gen, llm_calls,
                   srv>>

\* self._transcribe_callback(...): a transcript, possibly empty, or a raise.
transcribe(j) ==
    /\ pc[j] = "transcribe"
    /\ \E r \in {"text", "empty", "raise"} :
         IF r = "raise"
         THEN Raise(j, Unexpected) /\ UNCHANGED transcript
         ELSE /\ transcript' = [transcript EXCEPT ![j] = r]
              /\ Goto(j, "stage_writing_transcript")
              /\ UNCHANGED exc
    /\ UNCHANGED <<jobs, order, semaphore, next_id, now, job, slot_acquired,
                   cmd, proc, starting, cancel_seen, gen, llm_calls, srv>>

stage_writing_transcript(j) ==
    /\ pc[j] = "stage_writing_transcript"
    /\ job' = _set_stage(j, "WritingTranscript", 38, "Running")
    /\ \E written \in BOOLEAN :
         IF written
         THEN Goto(j, "stage_hooks") /\ UNCHANGED exc
         ELSE Raise(j, PipelineError("IO_WRITE_FAILED", "transcript.txt", "message"))
    /\ UNCHANGED <<jobs, order, semaphore, next_id, now, slot_acquired, cmd,
                   proc, transcript, starting, cancel_seen, gen, llm_calls,
                   srv>>

\* ExtractingHooks and the head of _extract_hooks: the cancel check and the
\* empty-transcript fallback.
stage_hooks(j) ==
    /\ pc[j] = "stage_hooks"
    /\ job' = _set_stage(j, "ExtractingHooks", 55, "Running")
    /\ IF job[j].cancel_event
       THEN Raise(j, Cancelled)
       ELSE /\ Goto(j, IF transcript[j] = "empty" THEN "stage_drafts" ELSE "hooks_call")
            /\ UNCHANGED exc
    /\ UNCHANGED <<jobs, order, semaphore, next_id, now, slot_acquired, cmd,
                   proc, transcript, starting, cancel_seen, gen, llm_calls,
                   srv>>

\* The errors _extract_hooks and _generate_drafts wrap every failure in,
\* and the error of a failed generation request.
HooksFailed == PipelineError("HOOKS_EXTRACTION_FAILED", "hooks", "HOOKS_JSON_INVALID")
DraftsFailed == PipelineError("DRAFTS_GENERATION_FAILED", "drafts", "DRAFTS_VALIDATION_FAILED")
LlmFailed == PipelineError("LLM_REQUEST_FAILED", "generation engine", "statusCode")

\* raise e inside a try block: control passes to its except clauses.
RaiseIn(j, e, except) ==
    /\ exc' = [exc EXCEPT ![j] = e]
    /\ Goto(j, except)

\* One _call_llm inside a try block and the code up to the next request:
\* the cancel check, then the request, which fails with LLM_REQUEST_FAILED
\* or returns; what it returns leads to one of the labels in gotos or makes
\* the caller raise one of the errors.
_call_llm(j, gotos, errors, except) ==
    /\ IF job[j].cancel_event
       THEN RaiseIn(j, Cancelled, except) /\ UNCHANGED llm_calls
       ELSE /\ llm_calls' = [llm_calls EXCEPT ![j] = @ + 1]
            /\ \/ \E label \in gotos : Goto(j, label) /\ UNCHANGED exc
               \/ \E e \in errors \cup {LlmFailed} : RaiseIn(j, e, except)
    /\ UNCHANGED <<jobs, order, semaphore, next_id, now, job, slot_acquired,
                   cmd, proc, transcript, starting, cancel_seen, gen, srv>>

\* First hooks request: JSON found, no JSON found (repair), a failed
\* request, or a raise while the payload is normalized.
hooks_call(j) ==
    /\ pc[j] = "hooks_call"
    /\ _call_llm(j, {"stage_drafts", "hooks_repair"}, {Unexpected}, "hooks_except")

\* Repair request: JSON found, or HOOKS_EXTRACTION_FAILED.
hooks_repair(j) ==
    /\ pc[j] = "hooks_repair"
    /\ _call_llm(j, {"stage_drafts"}, {HooksFailed}, "hooks_except")

\* The except clauses of _extract_hooks: JOB_CANCELLED and
\* HOOKS_EXTRACTION_FAILED pass, anything else is replaced by
\* HOOKS_EXTRACTION_FAILED.
hooks_except(j) ==
    /\ pc[j] = "hooks_except"
    /\ exc' = IF exc[j].code \in {"JOB_CANCELLED", "HOOKS_EXTRACTION_FAILED"}
              THEN exc
              ELSE [exc EXCEPT ![j] = HooksFailed]
    /\ Goto(j, "handler")
    /\ llm_calls' = [llm_calls EXCEPT ![j] = 0]
    /\ UNCHANGED <<jobs, order, semaphore, next_id, now, job, slot_acquired,
                   cmd, proc, transcript, starting, cancel_seen, gen, srv>>

\* hooks.json and facts_sheet.json, GeneratingDrafts, and the cancel check
\* at the head of _generate_drafts.
stage_drafts(j) ==
    /\ pc[j] = "stage_drafts"
    /\ \E written \in BOOLEAN :
         IF written
         THEN /\ job' = _set_stage(j, "GeneratingDrafts", 80, "Running")
              /\ IF job[j].cancel_event
                 THEN Raise(j, Cancelled)
                 ELSE Goto(j, "drafts_call") /\ UNCHANGED exc
         ELSE /\ Raise(j, PipelineError("IO_WRITE_FAILED", "hooks.json", "message"))
              /\ UNCHANGED job
    /\ llm_calls' = [llm_calls EXCEPT ![j] = 0]
    /\ UNCHANGED <<jobs, order, semaphore, next_id, now, slot_acquired, cmd,
                   proc, transcript, starting, cancel_seen, gen, srv>>

\* Combined drafts request: three sections, no sections (repair), a failed
\* request, or a raise while the sections are split.
drafts_call(j) ==
    /\ pc[j] = "drafts_call"
    /\ _call_llm(j, {"validate_linkedin", "drafts_repair"}, {Unexpected},
                 "drafts_except")

\* Split repair: three sections, or the per-section requests.
drafts_repair(j) ==
    /\ pc[j] = "drafts_repair"
    /\ _call_llm(j, {"validate_linkedin", "separately_linkedin"}, {},
                 "drafts_except")

\* _generate_drafts_separately: one request per section.
separately_linkedin(j) ==
    /\ pc[j] = "separately_linkedin"
    /\ _call_llm(j, {"separately_x_thread"}, {}, "drafts_except")

separately_x_thread(j) ==
    /\ pc[j] = "separately_x_thread"
    /\ _call_llm(j, {"separately_newsletter"}, {}, "drafts_except")

separately_newsletter(j) ==
    /\ pc[j] = "separately_newsletter"
    /\ _call_llm(j, {"validate_linkedin"}, {}, "drafts_except")

\* The head of a section validator: the section is valid as it is and is
\* returned, or a repair request is about to be made.
Validate(j, next, repair) ==
    /\ \E valid \in BOOLEAN : Goto(j, IF valid THEN next ELSE repair)
    /\ UNCHANGED <<jobs, order, semaphore, next_id, now, job, slot_acquired,
                   exc, cmd, proc, transcript, starting, cancel_seen, gen,
                   llm_calls, srv>>

\* A section repair that is requested again when its result is not usable.
ValidateRepair_again(j, next, except) ==
    _call_llm(j, {next, except, pc[j]}, {}, except)

\* The repair request of a section validator, whose result is usable (next)
\* or not (except, with no error in flight).
ValidateRepair(j, next, except) == _call_llm(j, {next, except}, {}, except)

\* An except clause that treats JOB_CANCELLED as any other PipelineError.
ValidateExcept_drops_cancel(j, next, errors) ==
    /\ \/ /\ exc' = [exc EXCEPT ![j] = NoExc]
          /\ Goto(j, next)
       \/ \E e \in errors : RaiseIn(j, e, "drafts_except")
    /\ UNCHANGED <<jobs, order, semaphore, next_id, now, job, slot_acquired,
                   cmd, proc, transcript, starting, cancel_seen, gen,
                   llm_calls, srv>>

\* The except clause of a validator and the code after it: JOB_CANCELLED
\* passes, any other PipelineError is logged and dropped; then the fallback
\* gives a section (next) or raises one of the errors.
ValidateExcept(j, next, errors) ==
    /\ IF exc[j].code = "JOB_CANCELLED"
       THEN Goto(j, "drafts_except") /\ UNCHANGED exc
       ELSE \/ /\ exc' = [exc EXCEPT ![j] = NoExc]
               /\ Goto(j, next)
            \/ \E e \in errors : RaiseIn(j, e, "drafts_except")
    /\ UNCHANGED <<jobs, order, semaphore, next_id, now, job, slot_acquired,
                   cmd, proc, transcript, starting, cancel_seen, gen,
                   llm_calls, srv>>

_validate_linkedin_carousel(j) ==
    /\ pc[j] = "validate_linkedin"
    /\ Validate(j, "validate_x", "repair_linkedin")

_validate_linkedin_carousel_repair(j) ==
    /\ pc[j] = "repair_linkedin"
    /\ ValidateRepair(j, "validate_x", "validate_linkedin_except")

\* A failed or invalid repair ends in the fallback template.
_validate_linkedin_carousel_except(j) ==
    /\ pc[j] = "validate_linkedin_except"
    /\ ValidateExcept(j, "validate_x", {})

_validate_x_thread(j) ==
    /\ pc[j] = "validate_x"
    /\ Validate(j, "validate_newsletter", "repair_x")

_validate_x_thread_repair(j) ==
    /\ pc[j] = "repair_x"
    /\ ValidateRepair(j, "validate_newsletter", "validate_x_except")

\* A failed repair ends in the truncated thread, or in DRAFTS_GENERATION_FAILED.
_validate_x_thread_except(j) ==
    /\ pc[j] = "validate_x_except"
    /\ ValidateExcept(j, "validate_newsletter", {DraftsFailed})

_validate_newsletter_summary(j) ==
    /\ pc[j] = "validate_newsletter"
    /\ Validate(j, "stage_assets", "repair_newsletter")

_validate_newsletter_summary_repair(j) ==
    /\ pc[j] = "repair_newsletter"
    /\ ValidateRepair(j, "stage_assets", "validate_newsletter_except")

_validate_newsletter_summary_except(j) ==
    /\ pc[j] = "validate_newsletter_except"
    /\ ValidateExcept(j, "stage_assets", {})

\* The except clauses of _generate_drafts: JOB_CANCELLED and
\* DRAFTS_GENERATION_FAILED pass, anything else is replaced by
\* DRAFTS_GENERATION_FAILED.
drafts_except(j) ==
    /\ pc[j] = "drafts_except"
    /\ exc' = IF exc[j].code \in {"JOB_CANCELLED", "DRAFTS_GENERATION_FAILED"}
              THEN exc
              ELSE [exc EXCEPT ![j] = DraftsFailed]
    /\ Goto(j, "handler")
    /\ llm_calls' = [llm_calls EXCEPT ![j] = 0]
    /\ UNCHANGED <<jobs, order, semaphore, next_id, now, job, slot_acquired,
                   cmd, proc, transcript, starting, cancel_seen, gen, srv>>

\* WritingAssets, the draft files, summary.txt and _write_metadata.
stage_assets(j) ==
    /\ pc[j] = "stage_assets"
    /\ job' = _set_stage(j, "WritingAssets", 92, "Running")
    /\ \E r \in {"ok", "io", "metadata"} :
         IF r = "ok"
         THEN Goto(j, "mark_done") /\ UNCHANGED exc
         ELSE Raise(j, IF r = "io"
                       THEN PipelineError("IO_WRITE_FAILED", "drafts", "message")
                       ELSE Unexpected)
    /\ llm_calls' = [llm_calls EXCEPT ![j] = 0]
    /\ UNCHANGED <<jobs, order, semaphore, next_id, now, slot_acquired, cmd,
                   proc, transcript, starting, cancel_seen, gen, srv>>

mark_done(j) ==
    /\ pc[j] = "mark_done"
    /\ job' = _mark_done(j, "summary")
    /\ Goto(j, "finally")
    /\ UNCHANGED <<jobs, order, semaphore, next_id, now, slot_acquired, exc,
                   cmd, proc, transcript, starting, cancel_seen, gen,
                   llm_calls, srv>>

(***************************************************************************)
(* The except and finally clauses of _run_job_worker                       *)
(***************************************************************************)
\* except clauses that drop JOB_CANCELLED instead of recording it.
handler_effect_drops_cancel(j) ==
    IF exc[j].code = "JOB_CANCELLED"
    THEN job
    ELSE IF exc[j].code = "Exception"
         THEN _mark_failed(j, "ASR_TRANSCRIBE_FAILED",
                           "Unexpected pipeline failure.", "message")
         ELSE _mark_failed(j, exc[j].code, exc[j].message, exc[j].details)

\* except clauses without the JOB_CANCELLED branch.
handler_effect_fails_cancel(j) ==
    IF exc[j].code = "Exception"
    THEN _mark_failed(j, "ASR_TRANSCRIBE_FAILED",
                      "Unexpected pipeline failure.", "message")
    ELSE _mark_failed(j, exc[j].code, exc[j].message, exc[j].details)

handler_effect(j) ==
    IF exc[j].code = "JOB_CANCELLED"
    THEN _mark_cancelled(j, exc[j].message)
    ELSE IF exc[j].code = "Exception"
         THEN _mark_failed(j, "ASR_TRANSCRIBE_FAILED",
                           "Unexpected pipeline failure.", "message")
         ELSE _mark_failed(j, exc[j].code, exc[j].message, exc[j].details)

handler(j) ==
    /\ pc[j] = "handler"
    /\ job' = handler_effect(j)
    /\ exc' = [exc EXCEPT ![j] = NoExc]
    /\ Goto(j, "finally")
    /\ UNCHANGED <<jobs, order, semaphore, next_id, now, slot_acquired, cmd,
                   proc, transcript, starting, cancel_seen, gen, llm_calls,
                   srv>>

\* A finally clause that releases the semaphore whether or not the worker
\* holds a permit.
finally_clause_always_releases(j) ==
    /\ pc[j] = "finally"
    /\ semaphore' = semaphore + 1
    /\ job' = [job EXCEPT ![j].active_process = FALSE]
    /\ Goto(j, "finished")
    /\ slot_acquired' = [slot_acquired EXCEPT ![j] = FALSE]
    /\ cmd' = [cmd EXCEPT ![j] = ""]
    /\ transcript' = [transcript EXCEPT ![j] = ""]
    /\ cancel_seen' = [cancel_seen EXCEPT ![j] = FALSE]
    /\ UNCHANGED <<jobs, order, next_id, now, exc, proc, starting, gen,
                   llm_calls, srv>>

\* finally: if slot_acquired: self._semaphore.release(), then
\* self._detach_process(job); the thread ends and its locals (and the
\* history kept for it) go.
finally_clause(j) ==
    /\ pc[j] = "finally"
    /\ semaphore' = IF slot_acquired[j] THEN semaphore + 1 ELSE semaphore
    /\ job' = [job EXCEPT ![j].active_process = FALSE]
    /\ Goto(j, "finished")
    /\ slot_acquired' = [slot_acquired EXCEPT ![j] = FALSE]
    /\ cmd' = [cmd EXCEPT ![j] = ""]
    /\ transcript' = [transcript EXCEPT ![j] = ""]
    /\ cancel_seen' = [cancel_seen EXCEPT ![j] = FALSE]
    /\ UNCHANGED <<jobs, order, next_id, now, exc, proc, starting, gen,
                   llm_calls, srv>>

Worker(j) ==
    \/ worker_start(j) \/ wait_check(j) \/ acquire(j) \/ wait_cancelled(j)
    \/ set_running(j) \/ deps(j)
    \/ popen(j) \/ _attach_process(j) \/ poll(j) \/ communicate(j)
    \/ _detach_process(j)
    \/ meta_video(j) \/ meta_paths(j) \/ meta_artifacts(j)
    \/ stage_download(j) \/ stage_convert(j)
    \/ stage_transcribing(j) \/ transcribe(j) \/ stage_writing_transcript(j)
    \/ stage_hooks(j) \/ hooks_call(j) \/ hooks_repair(j) \/ hooks_except(j)
    \/ stage_drafts(j) \/ drafts_call(j) \/ drafts_repair(j)
    \/ separately_linkedin(j) \/ separately_x_thread(j)
    \/ separately_newsletter(j)
    \/ _validate_linkedin_carousel(j) \/ _validate_linkedin_carousel_repair(j)
    \/ _validate_linkedin_carousel_except(j)
    \/ _validate_x_thread(j) \/ _validate_x_thread_repair(j)
    \/ _validate_x_thread_except(j)
    \/ _validate_newsletter_summary(j)
    \/ _validate_newsletter_summary_repair(j)
    \/ _validate_newsletter_summary_except(j)
    \/ drafts_except(j)
    \/ stage_assets(j) \/ mark_done(j)
    \/ handler(j) \/ finally_clause(j)

Next ==
    \/ \E u \in Urls, m \in AsrModels : start_job(u, m)
    \/ start_job_return
    \/ \E j \in JobIds : get_job(j)
    \/ \E j \in JobIds : cancel_job(j)
    \/ \E j \in JobIds : Worker(j)
    \/ \E j \in JobIds : child_exit(j)

\* Runs in which the clock does not advance.
Spec == Init /\ [][Next]_vars

\* Runs in which time passes as well.
TimedNext == Next \/ Tick

TimedSpec == Init /\ [][TimedNext]_vars

\* Fair scheduling of the worker threads, and child processes that end.
LiveSpec ==
    /\ Init
    /\ [][Next]_vars
    /\ \A j \in JobIds : WF_vars(Worker(j))
    /\ \A j \in JobIds : WF_vars(child_exit(j))

(***************************************************************************)
(* Generation stage: value hooks                                           *)
(*                                                                         *)
(* The text of a generation response is a sequence of tokens: "text" is    *)
(* prose, "{", "}", "[" and "]" are the JSON brackets, "members" is the    *)
(* members of a JSON object, "fence" is a code fence (three backquotes)   *)
(* and "fence json" a code fence with the json tag.                        *)
(***************************************************************************)
MaxHooks == 4       \* entries of the hooks array of a response

\* The decimal digits of f"{index}".
Digit(n) == <<"1", "2", "3", "4", "5", "6", "7", "8", "9">>[n]

\* json.loads(candidate) for the documents of the model: a dict, a list,
\* or a raise.
json_loads(candidate) ==
    LET doc == SelectSeq(candidate, LAMBDA t : t # " ")
        IsDict(d) == d \in {<<"{", "}">>, <<"{", "members", "}">>}
    IN IF IsDict(doc) THEN "dict"
       ELSE IF /\ Len(doc) >= 2
               /\ doc[1] = "["
               /\ doc[Len(doc)] = "]"
               /\ \/ Len(doc) = 2
                  \/ IsDict(SubSeq(doc, 2, Len(doc) - 1))
            THEN "list"
       ELSE "error"

\* fence_match.group(1) of the fence pattern: the text between the first
\* fence and the next one, <<>> when there is no match.
fence_match(raw) ==
    LET Fence(i) == raw[i] \in {"fence", "fence json"}
        opens == {i \in 1..Len(raw) :
                    Fence(i) /\ \E k \in (i + 1)..Len(raw) : Fence(k)}
    IN IF opens = {} THEN <<>>
       ELSE LET i == CHOOSE o \in opens : \A p \in opens : o <= p
                j == CHOOSE c \in (i + 1)..Len(raw) :
                       Fence(c) /\ \A k \in (i + 1)..(c - 1) : ~Fence(k)
            IN SubSeq(raw, i + 1, j - 1)

\* raw[first_brace : last_brace + 1], <<>> when the braces are missing or
\* out of order.
brace_span(raw) ==
    LET opens == {i \in 1..Len(raw) : raw[i] = "{"}
        closes == {i \in 1..Len(raw) : raw[i] = "}"}
    IN IF opens = {} \/ closes = {} THEN <<>>
       ELSE LET first_brace == CHOOSE o \in opens : \A p \in opens : o <= p
                last_brace == CHOOSE c \in closes : \A p \in closes : p <= c
            IN IF last_brace > first_brace
               THEN SubSeq(raw, first_brace, last_brace)
               ELSE <<>>

\* The candidates of _try_parse_json_object, in the order they are tried.
candidates_raw_only(raw) == <<raw>>

candidates(raw) ==
    <<raw>>
    \o (IF strip(fence_match(raw)) # <<>>
        THEN <<strip(fence_match(raw))>> ELSE <<>>)
    \o (IF brace_span(raw) # <<>> THEN <<strip(brace_span(raw))>> ELSE <<>>)

\* _try_parse_json_object: None, or the first candidate that loads as a
\* dict (members: whether the object has any).
_try_parse_json_object(raw_text) ==
    LET raw == strip(raw_text)
        dicts == SelectSeq(candidates(raw), LAMBDA c : json_loads(c) = "dict")
    IN IF raw = <<>> \/ dicts = <<>> THEN None
       ELSE [members |-> contains(dicts[1], "members")]

\* supporting quotes read from supporting_moments: the first three
\* non-blank ones, none when the value is not a list.
supporting_from(moments) ==
    IF ~moments.is_list THEN <<>>
    ELSE LET quotes == SelectSeq([i \in 1..Len(moments.quotes) |->
                                    strip(moments.quotes[i])],
                                 LAMBDA q : q # <<>>)
         IN SubSeq(quotes, 1, IF Len(quotes) < 3 THEN Len(quotes) ELSE 3)

\* The back-fill loop over fallback_quotes.
RECURSIVE fallback_quotes(_, _)
fallback_quotes(supporting, quotes) ==
    IF quotes = <<>> \/ Len(supporting) >= 2 THEN supporting
    ELSE LET quote == strip(Head(quotes))
         IN IF \/ quote = <<>>
               \/ \E i \in 1..Len(supporting) :
                    lower(strip(supporting[i])) = lower(quote)
            THEN fallback_quotes(supporting, Tail(quotes))
            ELSE fallback_quotes(Append(supporting, quote), Tail(quotes))

\* The value of (a or b) for two strings.
Or(a, b) == IF a # <<>> THEN a ELSE b

\* The loop of _normalize_hooks_payload over hooks_raw, from entry index.
RECURSIVE normalize_items(_, _, _)
normalize_items(hooks_raw, index, normalized) ==
    IF index > Len(hooks_raw) \/ Len(normalized) >= 3 THEN normalized
    ELSE LET item == hooks_raw[index]
             hook == strip(item.hook)
             outcome == strip(item.outcome)
             proof == strip(item.proof)
             supporting ==
                 fallback_quotes(supporting_from(item.moments),
                                 <<proof, outcome, hook,
                                   <<"No supporting quote provided.">> >>)
         IN IF ~item.is_dict \/ (hook = <<>> /\ outcome = <<>> /\ proof = <<>>)
            THEN normalize_items(hooks_raw, index + 1, normalized)
            ELSE normalize_items(hooks_raw, index + 1,
                   Append(normalized,
                     [rank |-> index,
                      hook |-> Or(hook, <<"Value hook ", Digit(index)>>),
                      outcome |-> Or(outcome, Or(proof, Or(hook,
                                    <<"Actionable takeaway identified.">>))),
                      proof |-> Or(proof, Or(outcome, Or(hook,
                                    <<"No proof snippet returned.">>))),
                      supporting_moments |->
                          SubSeq(supporting, 1, IF Len(supporting) < 3
                                                THEN Len(supporting) ELSE 3)]))

\* The padding loop: fallback hooks until there are three.
RECURSIVE pad_hooks(_)
pad_hooks(normalized) ==
    IF Len(normalized) >= 3 THEN normalized
    ELSE pad_hooks(Append(normalized,
           [rank |-> Len(normalized) + 1,
            hook |-> <<"Value hook ", Digit(Len(normalized) + 1)>>,
            outcome |-> <<"Actionable takeaway identified.">>,
            proof |-> <<"Generated fallback hook.">>,
            supporting_moments |-> << <<"Generated fallback hook.">> >>]))

\* The last loop: ranks 1..n in list order.
rerank_keeps_index(normalized) == normalized

rerank(normalized) ==
    [idx \in 1..Len(normalized) |-> [normalized[idx] EXCEPT !.rank = idx]]

\* _normalize_hooks_payload, for a payload whose hooks value is a list.
_normalize_hooks_payload(payload) ==
    LET normalized == rerank(pad_hooks(normalize_items(payload.hooks, 1, <<>>)))
    IN [hasTimestamps |-> FALSE, hooks |-> SubSeq(normalized, 1, 3)]

_build_fallback_hooks(title) ==
    << [rank |-> 1,
        hook |-> <<"Main theme overview">>,
        outcome |-> <<"Understand the central idea from ">>
                    \o strip(Or(title, <<"this video">>)) \o <<".">>,
        proof |-> <<"Transcript contained limited usable speech content.">>,
        supporting_moments |->
            << <<"No usable speech transcript was produced.">> >>],
       [rank |-> 2,
        hook |-> <<"Practical framing">>,
        outcome |-> <<"Collect actionable framing points for future content.">>,
        proof |-> <<"Fallback hook generated due to sparse transcript.">>,
        supporting_moments |->
            << <<"Fallback hook generated due to sparse transcript.">> >>],
       [rank |-> 3,
        hook |-> <<"Communication angle">>,
        outcome |-> <<"Position the topic in concise, audience-facing language.">>,
        proof |-> <<"Fallback hook generated due to sparse transcript.">>,
        supporting_moments |->
            << <<"Fallback hook generated due to sparse transcript.">> >>] >>

_hooks_are_placeholder(hooks_payload) ==
    LET hooks == hooks_payload.hooks
        Placeholder(item) ==
            \/ /\ lower(strip(item.hook)) # <<>>
               /\ lower(strip(item.hook))[1] = "value hook "
            \/ lower(strip(item.proof)) = <<"generated fallback hook.">>
            \/ lower(strip(item.outcome)) = <<"actionable takeaway identified.">>
    IN \/ Len(hooks) < 3
       \/ Cardinality({i \in 1..3 : Placeholder(hooks[i])}) >= 2

\* A transcript is the sequence of its sentences: "s1".."s4" are sentences
\* of 45 characters or more, "k1".."k3" are such sentences with one of the
\* keywords, "short" is a shorter sentence.
LongSentence(s) == s \in {"s1", "s2", "s3", "s4", "k1", "k2", "k3"}
Keyword(s) == s \in {"k1", "k2", "k3"}

\* The second selection loop: sentences not selected yet, up to six.
RECURSIVE select_more(_, _)
select_more(selected, sentences) ==
    IF sentences = <<>> \/ Len(selected) >= 6 THEN selected
    ELSE IF contains(selected, Head(sentences))
         THEN select_more(selected, Tail(sentences))
         ELSE select_more(Append(selected, Head(sentences)), Tail(sentences))

_build_transcript_derived_hooks(transcript_text) ==
    LET sentences == SelectSeq(strip(transcript_text), LongSentence)
        keyworded == SelectSeq(sentences, Keyword)
        first == SubSeq(keyworded, 1,
                        IF Len(keyworded) < 6 THEN Len(keyworded) ELSE 6)
        selected == IF Len(first) < 6 THEN select_more(first, sentences)
                    ELSE first
        quote(at, idx) == IF at <= Len(selected) THEN selected[at]
                          ELSE selected[idx]
        templates ==
            << <<"Design intent must connect to production intent.",
                 "Align CAD decisions with manufacturing flow earlier in the lifecycle.">>,
               <<"eBOM and mBOM serve different truths and should be modeled accordingly.",
                 "Build mBOM around real execution sequence, not only CAD hierarchy.">>,
               <<"Process planning is the bridge from digital model to repeatable output.",
                 "Define operations and resources explicitly to reduce downstream ambiguity.">> >>
    IN IF sentences = <<>> \/ Len(selected) < 3 THEN <<>>
       ELSE [idx \in 1..3 |->
               [rank |-> idx,
                hook |-> <<templates[idx][1]>>,
                outcome |-> <<templates[idx][2]>>,
                proof |-> <<quote(2 * idx - 1, idx)>>,
                supporting_moments |->
                    << <<quote(2 * idx - 1, idx)>>, <<quote(2 * idx, idx)>> >>]]

\* What _extract_hooks does with args: the title and the transcript of the job,
\* the outcomes of the first and of the repair request (failed, or the
\* content returned), the object that "members" stands for, and the first
\* cancel check that finds cancel_event set (0: none does; check 1 is the
\* head of the function, checks 2 and 3 are the heads of the two
\* _call_llm).  calls counts the requests sent.
_extract_hooks(args) ==
    LET IsSet(check) == args.cancel # 0 /\ args.cancel <= check
        Returns(calls, hooks) ==
            [calls |-> calls, error |-> NoExc,
             result |-> [hasTimestamps |-> FALSE, hooks |-> hooks]]
        Raises(calls, e) == [calls |-> calls, error |-> e, result |-> None]
        Except(calls, e) ==
            Raises(calls,
                   IF e.code \in {"JOB_CANCELLED", "HOOKS_EXTRACTION_FAILED"}
                   THEN e
                   ELSE PipelineError("HOOKS_EXTRACTION_FAILED",
                                      "Failed to extract value hooks.",
                                      IF e.code \in {"LLM_REQUEST_FAILED",
                                                     "Exception"}
                                      THEN "HOOKS_JSON_INVALID"
                                      ELSE e.code))
        Normalized(calls, parsed) ==
            IF ~parsed.members \/ ~args.payload.hooks_is_list
            THEN Except(calls, Unexpected)
            ELSE LET normalized == _normalize_hooks_payload(args.payload)
                     derived_hooks ==
                         IF _hooks_are_placeholder(normalized)
                         THEN _build_transcript_derived_hooks(args.transcript)
                         ELSE <<>>
                 IN Returns(calls, IF derived_hooks # <<>>
                                   THEN derived_hooks
                                   ELSE normalized.hooks)
        first == args.responses[1]
        repaired == args.responses[2]
    IN IF IsSet(1) THEN Raises(0, Cancelled)
       ELSE IF strip(args.transcript) = <<>>
            THEN Returns(0, _build_fallback_hooks(args.title))
       ELSE IF IsSet(2) THEN Except(0, Cancelled)
       ELSE IF first.failed THEN Except(1, LlmFailed)
       ELSE IF _try_parse_json_object(first.content) # None
            THEN Normalized(1, _try_parse_json_object(first.content))
       ELSE IF IsSet(3) THEN Except(1, Cancelled)
       ELSE IF repaired.failed THEN Except(2, LlmFailed)
       ELSE IF _try_parse_json_object(repaired.content) = None
            THEN Except(2, PipelineError("HOOKS_EXTRACTION_FAILED",
                                         "Failed to parse hooks JSON after repair retry.",
                                         "HOOKS_JSON_INVALID"))
       ELSE Normalized(2, _try_parse_json_object(repaired.content))

(***************************************************************************)
(* Inputs of the generation stage                                          *)
(***************************************************************************)
\* Content of a generation response (_call_llm strips it and raises on
\* empty content).
PlainJson == <<"{", "members", "}">>
FencedJson == <<"fence json", " ", "{", "members", "}", " ", "fence">>

Responses ==
    { PlainJson, FencedJson,
      <<"{", "}">>,
      <<"text", "fence", "{", "members", "}", "fence", "text">>,
      <<"text", "{", "members", "}", "text">>,
      <<"[", "{", "members", "}", "]">>,
      <<"text">>,
      <<"fence", "text", "fence">>,
      <<"{", "members">>,
      <<"}", "text", "{">>,
      <<"{", "members", "}", "text", "{", "members", "}">> }

\* Outcome of one request: LLM_REQUEST_FAILED, or the content.
LlmOutcomes ==
    {[failed |-> TRUE, content |-> <<>>]}
    \cup {[failed |-> FALSE, content |-> r] : r \in Responses}

Titles == {<<>>, <<"Title">>, <<"===", "Title">>}

Transcripts ==
    { <<>>, <<" ">>, <<"short">>,
      <<"s1", "short", "s2">>,
      <<"s1", "s2", "s3">>,
      <<" ", "k1", "s1", "k1", "s2">>,
      <<"s1", "k1", "s2", "k2", "s3", "k3", "s4">> }

\* Entries of the hooks array of a response.
HookItems ==
    { [is_dict |-> FALSE, hook |-> <<>>, outcome |-> <<>>, proof |-> <<>>,
       moments |-> [is_list |-> FALSE, quotes |-> <<>>]],
      [is_dict |-> TRUE, hook |-> <<" ">>, outcome |-> <<>>, proof |-> <<>>,
       moments |-> [is_list |-> TRUE, quotes |-> << <<"Quote A">> >>]],
      [is_dict |-> TRUE, hook |-> <<"Hook">>, outcome |-> <<"Outcome">>,
       proof |-> <<"Proof">>,
       moments |-> [is_list |-> TRUE,
                    quotes |-> << <<"Quote A">>, <<" ">>, <<"Quote B">>,
                                  <<"Quote C">>, <<"Quote D">> >>]],
      [is_dict |-> TRUE, hook |-> <<" ", "Hook">>, outcome |-> <<"hook">>,
       proof |-> <<>>, moments |-> [is_list |-> FALSE, quotes |-> <<>>]],
      [is_dict |-> TRUE, hook |-> <<>>, outcome |-> <<"===">>,
       proof |-> <<"Quote A">>,
       moments |-> [is_list |-> TRUE, quotes |-> << <<"quote a">> >>]] }

\* The object a response holds: its hooks value is a list of entries, or
\* something else.
Payloads ==
    {[hooks_is_list |-> FALSE, hooks |-> <<>>]}
    \cup {[hooks_is_list |-> TRUE, hooks |-> h] :
            h \in UNION {[1..n -> HookItems] : n \in 0..MaxHooks}}

\* Calls of _extract_hooks: every pair of responses under every cancel
\* check, and every payload over every transcript (the short payloads for
\* every title).
HooksCalls ==
    {[fn |-> "_extract_hooks",
      args |-> [title |-> <<"Title">>, transcript |-> <<"s1", "short", "s2">>,
                cancel |-> c, responses |-> <<r1, r2>>, payload |-> p],
      out |-> None] :
        c \in 0..3, r1 \in LlmOutcomes, r2 \in LlmOutcomes,
        p \in {q \in Payloads : Len(q.hooks) <= 1}}
    \cup
    UNION {
      {[fn |-> "_extract_hooks",
        args |-> [title |-> t, transcript |-> s, cancel |-> 0,
                  responses |-> <<[failed |-> FALSE, content |-> PlainJson],
                                  [failed |-> FALSE, content |-> PlainJson]>>,
                  payload |-> p],
        out |-> None] :
          s \in Transcripts,
          p \in {q \in Payloads : t = <<"Title">> \/ Len(q.hooks) <= 1}} :
      t \in Titles}

(***************************************************************************)
(* Generation stage: the X thread                                          *)
(*                                                                         *)
(* A thread text is the sequence of its lines.  A line is its marker (the  *)
(* digit d of a leading "[d/5]", 0 when it has none), the number of        *)
(* characters of its body (what follows the marker and the white space     *)
(* after it; 0 with no marker is a blank line) and gap, the number of      *)
(* white-space characters that end at character 277 of the post it opens.  *)
(* A post is the digit of its marker and the length of its body: its text  *)
(* is the marker, one space and the body, stripped.                        *)
(***************************************************************************)
MaxPosts == 6       \* lines of a thread text

\* len(post)
PostLen(post) == IF post.body = 0 THEN 5 ELSE 6 + post.body

\* The chunks between markers: a line without marker continues the post
\* before it, and is dropped when there is none.
RECURSIVE marker_chunks(_, _)
marker_chunks(lines, posts) ==
    IF lines = <<>> THEN posts
    ELSE LET line == Head(lines)
             last == posts[Len(posts)]
         IN IF line.marker # 0
            THEN marker_chunks(Tail(lines),
                               Append(posts, [digit |-> line.marker,
                                              body |-> line.body,
                                              gap |-> line.gap]))
            ELSE IF posts = <<>> THEN marker_chunks(Tail(lines), posts)
            ELSE marker_chunks(Tail(lines),
                   [posts EXCEPT ![Len(posts)].body =
                      IF last.body = 0 THEN line.body
                      ELSE last.body + 1 + line.body])

_extract_x_thread_posts(raw_text) ==
    LET lines == SelectSeq(raw_text, LAMBDA l : l.marker # 0 \/ l.body # 0)
    IN IF \E i \in 1..Len(lines) : lines[i].marker # 0
       THEN marker_chunks(lines, <<>>)
       ELSE [idx \in 1..(IF Len(lines) < 5 THEN Len(lines) ELSE 5) |->
               [digit |-> idx, body |-> lines[idx].body,
                gap |-> lines[idx].gap]]

\* Every post gets the marker of its place in the list; the result is
\* stripped, so a post without body loses the space after the marker.
_normalize_x_thread_posts(posts) ==
    [idx \in 1..Len(posts) |-> [posts[idx] EXCEPT !.digit = idx]]

_x_thread_within_limit(posts) ==
    Len(posts) = 5 /\ \A i \in 1..Len(posts) : PostLen(posts[i]) <= 280

\* post[:277].rstrip() + "...": 271 characters of body, less the white
\* space at the cut, and three dots.
_truncate_x_thread_posts(posts) ==
    [i \in 1..Len(posts) |->
       IF PostLen(posts[i]) <= 280 THEN posts[i]
       ELSE [posts[i] EXCEPT !.body = (271 - posts[i].gap) + 3, !.gap = 0]]

\* What _validate_x_thread does with args: the section text, the outcome
\* of the repair request and whether cancel_event is set when it is made.
_validate_x_thread_text(args) ==
    LET Returns(calls, accepted) ==
            [calls |-> calls, error |-> NoExc, result |-> accepted]
        Raises(calls, e) == [calls |-> calls, error |-> e, result |-> None]
        posts == _normalize_x_thread_posts(_extract_x_thread_posts(args.text))
        repaired == args.responses[1]
        repaired_posts ==
            _normalize_x_thread_posts(_extract_x_thread_posts(repaired.content))
        AfterRepair ==
            IF /\ Len(posts) = 5
               /\ _x_thread_within_limit(_truncate_x_thread_posts(posts))
            THEN Returns(1, _truncate_x_thread_posts(posts))
            ELSE Raises(1, PipelineError("DRAFTS_GENERATION_FAILED",
                                 "Unable to produce a valid 5-post X thread.",
                                 "DRAFTS_VALIDATION_FAILED"))
    IN IF _x_thread_within_limit(posts) THEN Returns(0, posts)
       ELSE IF args.cancel # 0 THEN Raises(0, Cancelled)
       ELSE IF repaired.failed THEN AfterRepair
       ELSE IF Len(repaired_posts) # 5 THEN AfterRepair
       ELSE IF _x_thread_within_limit(repaired_posts)
            THEN Returns(1, repaired_posts)
       ELSE IF _x_thread_within_limit(_truncate_x_thread_posts(repaired_posts))
            THEN Returns(1, _truncate_x_thread_posts(repaired_posts))
       ELSE AfterRepair

\* Thread texts: n lines, marked with their own digits, all with "[1/5]",
\* or not marked, one of them with another body than the others.
ThreadTexts ==
    {[i \in 1..n |->
        [marker |-> IF marks = "none" THEN 0
                    ELSE IF marks = "ones" THEN 1 ELSE i,
         body |-> IF i = k THEN b ELSE 1,
         gap |-> IF i = k /\ b = 300 THEN 2 ELSE 0]] :
        n \in 4..MaxPosts, k \in {1, 5}, b \in {0, 1, 274, 275, 300},
        marks \in {"none", "ones", "own"}}
    \cup
    \* a preamble line, then five posts, the second on two lines
    { <<[marker |-> 0, body |-> 10, gap |-> 0],
        [marker |-> 1, body |-> 1, gap |-> 0],
        [marker |-> 2, body |-> 0, gap |-> 0],
        [marker |-> 0, body |-> b, gap |-> 0],
        [marker |-> 3, body |-> 1, gap |-> 0],
        [marker |-> 4, body |-> 1, gap |-> 0],
        [marker |-> 5, body |-> 1, gap |-> 0]>> : b \in {0, 1, 300} }

XThreadCalls ==
    {[fn |-> "_validate_x_thread",
      args |-> [text |-> t, cancel |-> c, responses |-> <<r>>],
      out |-> None] :
        t \in ThreadTexts, c \in 0..1,
        r \in {[failed |-> TRUE, content |-> <<>>]}
              \cup {[failed |-> FALSE, content |-> x] :
                      x \in {y \in ThreadTexts : y[2].marker = 1}}}

(***************************************************************************)
(* Generation stage: the LinkedIn carousel and the newsletter summary      *)
(***************************************************************************)
MaxSlides == 9      \* lines of a LinkedIn section

\* The except clause of a validator around its repair request: the error
\* it raises again, NoExc when the error is only logged.
except_repair_reraises(e) == e

except_repair(e) == IF e.code = "JOB_CANCELLED" THEN e ELSE NoExc

\* A LinkedIn section is the sequence of its lines: slide is the number N
\* of a leading "Slide N:" (0 when the line has none), blank a line of
\* white space.  A slide of the result is the number it is given.
slide_number_of_marker(idx, match) == match.slide

slide_number(idx, match) == idx

_extract_linkedin_slides(raw_text) ==
    LET lines == SelectSeq(raw_text, LAMBDA l : ~l.blank)
        matches == SelectSeq(lines, LAMBDA l : l.slide # 0)
    IN IF matches # <<>>
       THEN [idx \in 1..Len(matches) |-> slide_number(idx, matches[idx])]
       ELSE IF Len(lines) >= 5
            THEN [idx \in 1..(IF Len(lines) < 8 THEN Len(lines) ELSE 8) |-> idx]
       ELSE <<>>

\* The slides of the template: slide 1, one slide per hook from 2 on, and
\* the slides 5, 6 and 7; seven at most.
_build_fallback_linkedin_carousel(hooks_data) ==
    LET normalized_hooks ==
            SubSeq(hooks_data.hooks, 1, IF Len(hooks_data.hooks) < 3
                                        THEN Len(hooks_data.hooks) ELSE 3)
        slides == <<1>> \o [i \in 1..Len(normalized_hooks) |-> i + 1]
                  \o <<5, 6, 7>>
    IN SubSeq(slides, 1, IF Len(slides) < 7 THEN Len(slides) ELSE 7)

\* What _validate_linkedin_carousel does with args: the section text, the
\* outcome of the repair request, whether cancel_event is set when it is
\* made, and the hooks payload.
_validate_linkedin_carousel_text(args) ==
    LET Returns(calls, accepted, path) ==
            [calls |-> calls, error |-> NoExc, result |-> accepted,
             path |-> path]
        Raises(calls, e) ==
            [calls |-> calls, error |-> e, result |-> None, path |-> "raise"]
        Caught(calls, e) ==
            IF except_repair(e) # NoExc THEN Raises(calls, except_repair(e))
            ELSE Returns(calls,
                         _build_fallback_linkedin_carousel(args.hooks_data),
                         "template")
        slides == _extract_linkedin_slides(args.text)
        repaired == args.responses[1]
        repaired_slides == _extract_linkedin_slides(repaired.content)
    IN IF Len(slides) \in 5..8 THEN Returns(0, slides, "first")
       ELSE IF args.cancel # 0 THEN Caught(0, Cancelled)
       ELSE IF repaired.failed THEN Caught(1, LlmFailed)
       ELSE IF Len(repaired_slides) \in 5..8
            THEN Returns(1, repaired_slides, "repaired")
       ELSE Returns(1, _build_fallback_linkedin_carousel(args.hooks_data),
                    "template")

\* A newsletter text is a sequence of tokens: "## " and "### " open a
\* heading, "\n- " and "\n* " a bullet, "===" is a delimiter, "prose" a
\* paragraph of 400 characters and "word" a word of 4.  Any other token
\* counts for one character, the least it can have.
TokenLen(t) ==
    CASE t \in {"## ", "\n- ", "\n* ", "==="} -> 3
      [] t \in {"### ", "word"} -> 4
      [] t = "\n\n" -> 2
      [] t = "prose" -> 400
      [] t = "Overview\nThis session on " -> 25
      [] t = " emphasizes a practical shift: (...) on the floor." -> 214
      [] t = "Key Takeaways" -> 13
      [] t = "Why It Matters\nWhen eBOM, mBOM, (...) fewer surprises." -> 215
      [] OTHER -> 1

\* len(text)
RECURSIVE chars(_)
chars(text) ==
    IF text = <<>> THEN 0 ELSE TokenLen(Head(text)) + chars(Tail(text))

_newsletter_is_usable(text) ==
    /\ text # <<>>
    /\ ~contains(text, "===")
    /\ chars(text) >= 320
    /\ contains(text, "## ") \/ contains(text, "### ")
    /\ contains(text, "\n- ") \/ contains(text, "\n* ")

\* The bullet lines of the template: the outcome, or else the hook, of the
\* first three hooks, and the stock line until there are three.
RECURSIVE bullet_lines(_, _)
bullet_lines(hooks, lines) ==
    IF hooks = <<>>
    THEN IF Len(lines) < 3
         THEN bullet_lines(hooks, Append(lines,
                <<"Align design decisions with manufacturing execution constraints early.">>))
         ELSE lines
    ELSE LET line == Or(strip(Head(hooks).outcome), strip(Head(hooks).hook))
         IN bullet_lines(Tail(hooks),
                         IF line = <<>> THEN lines ELSE Append(lines, line))

RECURSIVE join_bullets(_)
join_bullets(lines) ==
    IF lines = <<>> THEN <<>>
    ELSE <<"\n- ">> \o Head(lines) \o join_bullets(Tail(lines))

_build_fallback_newsletter_summary(title, hooks_data) ==
    LET normalized_hooks ==
            SubSeq(hooks_data.hooks, 1, IF Len(hooks_data.hooks) < 3
                                        THEN Len(hooks_data.hooks) ELSE 3)
        lines == bullet_lines(normalized_hooks, <<>>)
    IN <<"## ", "Overview\nThis session on ">>
       \o Or(title, <<"the video topic">>)
       \o <<" emphasizes a practical shift: (...) on the floor.", "\n\n",
            "### ", "Key Takeaways">>
       \o join_bullets(SubSeq(lines, 1, IF Len(lines) < 4 THEN Len(lines)
                                        ELSE 4))
       \o <<"\n\n", "### ",
            "Why It Matters\nWhen eBOM, mBOM, (...) fewer surprises.">>

\* What _validate_newsletter_summary does with args: the section text, the
\* outcome of the repair request, whether cancel_event is set when it is
\* made, the title of the job and the hooks payload.
_validate_newsletter_summary_text(args) ==
    LET Returns(calls, accepted, path) ==
            [calls |-> calls, error |-> NoExc, result |-> accepted,
             path |-> path]
        Raises(calls, e) ==
            [calls |-> calls, error |-> e, result |-> None, path |-> "raise"]
        Template(calls) ==
            Returns(calls,
                    _build_fallback_newsletter_summary(args.title,
                                                       args.hooks_data),
                    "template")
        Caught(calls, e) ==
            IF except_repair(e) # NoExc THEN Raises(calls, except_repair(e))
            ELSE Template(calls)
        cleaned == strip(args.text)
        repaired == args.responses[1]
        repaired_clean == strip(repaired.content)
    IN IF _newsletter_is_usable(cleaned) THEN Returns(0, cleaned, "first")
       ELSE IF args.cancel # 0 THEN Caught(0, Cancelled)
       ELSE IF repaired.failed THEN Caught(1, LlmFailed)
       ELSE IF _newsletter_is_usable(repaired_clean)
            THEN Returns(1, repaired_clean, "repaired")
       ELSE Template(1)

\* Hooks payloads that reach the drafts of a job: what _extract_hooks
\* returns for its title, the transcripts and the responses of at most one
\* entry.
HooksData(title) ==
    {o.result :
       o \in {h \in {_extract_hooks(
                       [title |-> title, transcript |-> s, cancel |-> 0,
                        responses |-> <<[failed |-> FALSE, content |-> PlainJson],
                                        [failed |-> FALSE, content |-> PlainJson]>>,
                        payload |-> p]) :
                     s \in Transcripts,
                     p \in {q \in Payloads : Len(q.hooks) <= 1}} :
              h.error = NoExc}}

LinkedInTexts ==
    {[i \in 1..n |->
        [slide |-> IF marks = "none" THEN 0
                   ELSE IF marks = "ones" THEN 1 ELSE i,
         blank |-> FALSE]] :
        n \in 0..MaxSlides, marks \in {"none", "ones", "own"}}
    \cup
    \* a blank line and a preamble, then five slides numbered from 3
    { <<[slide |-> 0, blank |-> TRUE], [slide |-> 0, blank |-> FALSE]>>
      \o [i \in 1..5 |-> [slide |-> i + 2, blank |-> FALSE]] }

LinkedInCalls ==
    {[fn |-> "_validate_linkedin_carousel",
      args |-> [text |-> t, cancel |-> c, responses |-> <<r>>,
                hooks_data |-> h],
      out |-> None] :
        t \in LinkedInTexts, c \in 0..1, h \in HooksData(<<"Title">>),
        r \in {[failed |-> TRUE, content |-> <<>>]}
              \cup {[failed |-> FALSE, content |-> x] :
                      x \in {y \in LinkedInTexts :
                               y # <<>> /\ y[1].slide = 1}}}

NewsletterTexts ==
    { <<>>, <<" ">>,
      <<"## ", "prose", "\n- ", "word">>,
      <<" ", "### ", "prose", "\n* ", "word", " ">>,
      <<"## ", "word", "\n- ", "word">>,
      <<"## ", "prose", "\n- ", "word", "===">>,
      <<"prose", "\n- ", "word">>,
      <<"## ", "prose">> }

NewsletterCalls ==
    UNION {
      {[fn |-> "_validate_newsletter_summary",
        args |-> [text |-> t, cancel |-> c, responses |-> <<r>>,
                  title |-> title, hooks_data |-> h],
        out |-> None] :
          t \in NewsletterTexts, c \in 0..1, h \in HooksData(title),
          r \in {[failed |-> TRUE, content |-> <<>>]}
                \cup {[failed |-> FALSE, content |-> x] :
                        x \in NewsletterTexts \ {<<>>, <<" ">>}}} :
      title \in Titles}

(***************************************************************************)
(* Resolving: the video id and its output directory                        *)
(***************************************************************************)
MaxIdLen == 3       \* characters of the short video ids explored
MaxFolderLen == 96  \* cleaned[:96]

\* Characters stand for their class: "a" a letter or digit, "-" and "_"
\* themselves, "!" anything else.
IdChars == {"a", "-", "_", "!"}

Unknown == <<"u", "n", "k", "n", "o", "w", "n">>

\* re.sub(r"[^A-Za-z0-9_-]", "_", raw)
re_sub(raw) ==
    [i \in 1..Len(raw) |-> IF raw[i] \in {"!"} THEN "_" ELSE raw[i]]

\* cleaned.strip("_")
strip_underscores(cleaned) ==
    LET kept == {i \in 1..Len(cleaned) : cleaned[i] # "_"}
    IN IF kept = {}
       THEN <<>>
       ELSE SubSeq(cleaned,
                   CHOOSE i \in kept : \A k \in kept : i <= k,
                   CHOOSE i \in kept : \A k \in kept : i >= k)

_sanitize_folder_component(raw) ==
    LET cleaned == strip_underscores(re_sub(raw))
    IN IF cleaned # <<>>
       THEN SubSeq(cleaned, 1, IF Len(cleaned) < MaxFolderLen
                               THEN Len(cleaned) ELSE MaxFolderLen)
       ELSE Unknown

\* The id step of _execute_pipeline on metadata.get("id") (<<>> for a
\* missing or empty id): INVALID_URL, or job.video_id and the directory
\* made for it.
_resolve_video_id(args) ==
    LET video_id == _sanitize_folder_component(args.id)
    IN IF video_id = <<>>
       THEN [error |-> PipelineError("INVALID_URL",
                                     "Unable to resolve a single YouTube video id.",
                                     ""),
             video_id |-> None, output_dir |-> None]
       ELSE [error |-> NoExc, video_id |-> video_id,
             output_dir |-> <<"youtube_root">> \o video_id]

\* Ids of up to MaxIdLen characters, and ids longer than MaxFolderLen: a run
\* of letters after a short head, with an underscore where the cut falls.
LongRun == [i \in 1..(MaxFolderLen + 4) |-> IF i = MaxFolderLen - 1 THEN "_" ELSE "a"]

VideoIds ==
    UNION {[1..n -> IdChars] : n \in 0..MaxIdLen}
    \cup {head \o LongRun : head \in UNION {[1..n -> IdChars] : n \in 0..2}}

VideoIdCalls ==
    {[fn |-> "_resolve_video_id", args |-> [id |-> id], out |-> None] :
       id \in VideoIds}

(***************************************************************************)
(* Settings read from the environment, and the timeout of a command        *)
(***************************************************************************)
\* The text of an environment variable: unset or blank, not an integer, or
\* the integer it spells.
EnvTexts ==
    {[kind |-> "blank", value |-> 0], [kind |-> "text", value |-> 0]}
    \cup {[kind |-> "int", value |-> v] :
            v \in {-5, 0, 1, 59, 60, 61, 1200, 10800, 10801}}

_int_env(raw, default, min_value, max_value) ==
    IF raw.kind # "int"
    THEN default
    ELSE LET capped == IF raw.value < max_value THEN raw.value ELSE max_value
         IN IF min_value > capped THEN min_value ELSE capped

\* self._download_timeout_sec
_download_timeout_sec(raw) == _int_env(raw, 20 * 60, 60, 3 * 60 * 60)

\* The download of a fetcher that outlives its deadline, with
\* ST_YOUTUBE_DOWNLOAD_TIMEOUT_SEC as given: the PipelineError _run_command
\* raises, with the keys of its details and the timeoutSec among them.
_run_command_timeout(args) ==
    [error |-> PipelineError("YOUTUBE_DOWNLOAD_FAILED",
                             "yt-dlp failed to download audio. Timeout",
                             "timeoutSec"),
     keys |-> {"timeoutSec", "command"},
     timeoutSec |-> _download_timeout_sec(args.env)]

TimeoutCalls ==
    {[fn |-> "_run_command", args |-> [env |-> e], out |-> None] :
       e \in EnvTexts}

(***************************************************************************)
(* The functions above applied to their inputs: one call per behaviour,    *)
(* the store untouched.                                                    *)
(***************************************************************************)
GenCalls ==
    HooksCalls \cup XThreadCalls \cup LinkedInCalls \cup NewsletterCalls
    \cup VideoIdCalls \cup TimeoutCalls

GenInit == StoreInit /\ gen \in GenCalls /\ srv = NoSrv

\* The call returns or raises.
Applied(fn, out) ==
    /\ gen.fn = fn
    /\ gen.out = None
    /\ gen' = [gen EXCEPT !.out = out]
    /\ UNCHANGED <<jobs, order, semaphore, next_id, now, job, pc,
                   slot_acquired, exc, cmd, proc, transcript, starting,
                   cancel_seen, llm_calls, srv>>

extract_hooks == Applied("_extract_hooks", _extract_hooks(gen.args))

validate_x_thread ==
    Applied("_validate_x_thread", _validate_x_thread_text(gen.args))

validate_linkedin_carousel ==
    Applied("_validate_linkedin_carousel",
            _validate_linkedin_carousel_text(gen.args))

validate_newsletter_summary ==
    Applied("_validate_newsletter_summary",
            _validate_newsletter_summary_text(gen.args))

resolve_video_id == Applied("_resolve_video_id", _resolve_video_id(gen.args))

run_command_timeout == Applied("_run_command", _run_command_timeout(gen.args))

GenNext ==
    \/ extract_hooks
    \/ validate_x_thread
    \/ validate_linkedin_carousel
    \/ validate_newsletter_summary
    \/ resolve_video_id
    \/ run_command_timeout

GenSpec == GenInit /\ [][GenNext]_vars

(***************************************************************************)
(* Voice server: ProviderRegistry and BaseProvider.init_probe              *)
(***************************************************************************)
MaxThreads == 2     \* request threads of the server
MaxRequests == 3    \* requests explored

Threads == 1..MaxThreads

\* The engine a request names ("" stands for None or blank text) and the
\* engine it resolves to.
normalize_stt_engine(value) ==
    IF value = "" THEN "faster-whisper"
    ELSE IF value = "whisper" THEN "faster-whisper"
    ELSE value

normalize_tts_engine(value) == IF value = "" THEN "windows" ELSE value

\* engine or self.runtime_config.stt_engine (tts_engine), normalized.
resolved_engine(kind, engine) ==
    IF kind = "stt"
    THEN normalize_stt_engine(IF engine # "" THEN engine ELSE "faster-whisper")
    ELSE normalize_tts_engine(IF engine # "" THEN engine ELSE "windows")

EngineArgs(kind) ==
    IF kind = "stt" THEN {"", "whisper", "qwen3asr"} ELSE {"", "kokoro"}

ResolvedKeys == {"faster-whisper", "qwen3asr", "windows", "kokoro"}

\* A provider as create_stt_provider / create_tts_provider build it.
BaseProvider(kind, key) ==
    [kind |-> kind, key |-> key,
     requires_init_probe |-> key # "windows",
     _init_lock |-> 0,
     _init_cache |-> None,
     warmups |-> [plain |-> 0, forced |-> 0]]

InitProbeResult(ready) == [ready |-> ready]

Idle ==
    [pc |-> "idle", kind |-> "", key |-> "", force |-> FALSE, provider |-> 0,
     installed |-> FALSE, result |-> None]

ServerInit ==
    [_cache |-> [kind \in {"stt", "tts"} |-> [k \in ResolvedKeys |-> 0]],
     _lock |-> 0,
     providers |-> <<>>,
     requests |-> 0,
     th |-> [t \in Threads |-> Idle]]

SrvStep(next) ==
    /\ srv' = next
    /\ UNCHANGED <<jobs, order, semaphore, next_id, now, job, pc,
                   slot_acquired, exc, cmd, proc, transcript, starting,
                   cancel_seen, gen, llm_calls>>

\* An endpoint receives a request for a provider: the key is resolved
\* before the registry lock is taken.
request(t) ==
    /\ srv.th[t].pc = "idle"
    /\ srv.requests < MaxRequests
    /\ \E kind \in {"stt", "tts"}, force \in BOOLEAN :
         \E engine \in EngineArgs(kind) :
           SrvStep([srv EXCEPT
                      !.requests = @ + 1,
                      !.th[t] = [Idle EXCEPT
                                   !.pc = "get",
                                   !.kind = kind,
                                   !.key = resolved_engine(kind, engine),
                                   !.force = force]])

\* with self._lock entered without waiting for the lock.
registry_acquire_unlocked(t) ==
    /\ srv.th[t].pc = "get"
    /\ SrvStep([srv EXCEPT !._lock = t, !.th[t].pc = "lookup"])

\* with self._lock:
registry_acquire(t) ==
    /\ srv.th[t].pc = "get"
    /\ srv._lock = 0
    /\ SrvStep([srv EXCEPT !._lock = t, !.th[t].pc = "lookup"])

\* provider = self._stt_cache.get(key); if provider is None:
registry_lookup(t) ==
    /\ srv.th[t].pc = "lookup"
    /\ LET provider == srv._cache[srv.th[t].kind][srv.th[t].key]
       IN SrvStep([srv EXCEPT
                     !.th[t].provider = provider,
                     !.th[t].pc = IF provider = 0 THEN "create" ELSE "release"])

\* provider = create_stt_provider(...); self._stt_cache[key] = provider
registry_create(t) ==
    /\ srv.th[t].pc = "create"
    /\ LET provider == Len(srv.providers) + 1
       IN SrvStep([srv EXCEPT
                     !.providers =
                        Append(@, BaseProvider(srv.th[t].kind, srv.th[t].key)),
                     !._cache[srv.th[t].kind][srv.th[t].key] = provider,
                     !.th[t].provider = provider,
                     !.th[t].pc = "release"])

\* return provider, leaving the with block.
registry_release(t) ==
    /\ srv.th[t].pc = "release"
    /\ SrvStep([srv EXCEPT
                  !._lock = IF @ = t THEN 0 ELSE @,
                  !.th[t].pc = "probe"])

\* provider.init_probe(force): with self._init_lock:
probe_acquire(t) ==
    /\ srv.th[t].pc = "probe"
    /\ srv.providers[srv.th[t].provider]._init_lock = 0
    /\ SrvStep([srv EXCEPT
                  !.providers[srv.th[t].provider]._init_lock = t,
                  !.th[t].pc = "probe_check"])

\* The steps of init_probe up to _run_init_probe, given what counts as a
\* usable cache entry: the cached result, or the file probe and, for an
\* installed engine that needs one, the start of the warm-up.
ProbeCheck(t, cached) ==
    LET p == srv.th[t].provider
        provider == srv.providers[p]
        Return(result) ==
            [srv EXCEPT !.providers[p]._init_cache = result,
                        !.th[t].result = result,
                        !.th[t].pc = "probe_release"]
    IN /\ srv.th[t].pc = "probe_check"
       /\ IF cached /\ ~srv.th[t].force
          THEN SrvStep([srv EXCEPT !.th[t].result = provider._init_cache,
                                   !.th[t].pc = "probe_release"])
          ELSE \E installed \in
                   (IF provider.key = "windows" THEN {TRUE} ELSE BOOLEAN) :
                 IF ~installed
                 THEN SrvStep(Return(InitProbeResult(FALSE)))
                 ELSE IF ~provider.requires_init_probe
                 THEN SrvStep([Return(InitProbeResult(TRUE)) EXCEPT
                                 !.th[t].installed = TRUE])
                 ELSE SrvStep([srv EXCEPT
                                 !.th[t].installed = TRUE,
                                 !.th[t].pc = "warmup",
                                 !.providers[p].warmups =
                                    IF srv.th[t].force
                                    THEN [@ EXCEPT !.forced = @ + 1]
                                    ELSE [@ EXCEPT !.plain = @ + 1]])

\* An init_probe that returns the cache only when it holds a ready result.
probe_check_ready_only(t) ==
    ProbeCheck(t, /\ srv.providers[srv.th[t].provider]._init_cache # None
                  /\ srv.providers[srv.th[t].provider]._init_cache.ready)

\* if self._init_cache is not None and not force: return self._init_cache
probe_check(t) ==
    ProbeCheck(t, srv.providers[srv.th[t].provider]._init_cache # None)

\* probe = self._run_init_probe(), or the result built from what it raised;
\* self._init_cache = probe
warmup(t) ==
    /\ srv.th[t].pc = "warmup"
    /\ \E ready \in BOOLEAN :
         SrvStep([srv EXCEPT
                    !.providers[srv.th[t].provider]._init_cache =
                       InitProbeResult(ready),
                    !.th[t].result = InitProbeResult(ready),
                    !.th[t].pc = "probe_release"])

\* return self._init_cache, leaving the with block; the request ends.
probe_release(t) ==
    /\ srv.th[t].pc = "probe_release"
    /\ SrvStep([srv EXCEPT
                  !.providers[srv.th[t].provider]._init_lock = 0,
                  !.th[t] = Idle])

ServerNext ==
    \E t \in Threads :
        \/ request(t)
        \/ registry_acquire(t) \/ registry_lookup(t) \/ registry_create(t)
        \/ registry_release(t)
        \/ probe_acquire(t) \/ probe_check(t) \/ warmup(t) \/ probe_release(t)

ServerSpecInit == StoreInit /\ gen = NoGen /\ srv = ServerInit

ServerSpec == ServerSpecInit /\ [][ServerNext]_vars

(***************************************************************************)
(* Properties                                                              *)
(***************************************************************************)
\* C1: once a job is Done, Failed or Cancelled, no step changes its status,
\* stage, progress, summary or error.
TerminalIsSticky ==
    [][\A j \in JobIds :
         _is_terminal(j) =>
           /\ job'[j].status = job[j].status
           /\ job'[j].stage = job[j].stage
           /\ job'[j].progress = job[j].progress
           /\ job'[j].summary = job[j].summary
           /\ job'[j].error = job[j].error]_vars

\* A job cancelled while Queued whose worker went on to _set_stage, the
\* pipeline and the except clause, all on the terminal job.
TerminalIsStickyWitness ==
    \E j \in JobIds :
        /\ job[j].status = "Cancelled"
        /\ job[j].error.message = BeforeStart
        /\ slot_acquired[j]
        /\ pc[j] = "finally"

\* C2: the number of Running jobs never exceeds maxConcurrentJobs.
RunningBounded ==
    Cardinality({j \in JobIds : job[j].status = "Running"}) <= max_concurrent

\* One job runs while the worker of another polls the semaphore.
RunningBoundedWitness ==
    \E j, k \in JobIds :
        /\ j # k
        /\ job[j].status = "Running"
        /\ job[k].status = "Queued"
        /\ pc[k] = "acquire"
        /\ semaphore = 0

\* C3: a Running job whose attached, live child process was terminated by
\* cancel_job ends Cancelled with JOB_CANCELLED, its child ended and detached.
CancelWithChildEndsCancelled ==
    \A j \in JobIds :
        (pc[j] = "finally" /\ cancel_seen[j]) =>
          /\ job[j].status = "Cancelled"
          /\ job[j].error.code = "JOB_CANCELLED"
          /\ ~job[j].active_process
          /\ proc[j] # "running"

\* C4: under fair scheduling every started job reaches a terminal status,
\* and its worker ends with that one status recorded.
EveryJobTerminates ==
    \A j \in JobIds :
        (pc[j] # "none") ~> (pc[j] = "finished" /\ _is_terminal(j))

\* A job cancelled while it ran, with its worker ended.
EveryJobTerminatesWitness ==
    \E j \in JobIds :
        /\ pc[j] = "finished"
        /\ job[j].status = "Cancelled"
        /\ job[j].error.message = "Job cancelled by user."

\* C5: the step that raises the cancel signal of a Queued job makes that job
\* Cancelled with JOB_CANCELLED, and changes no other job, no worker and no
\* child process.
CancelQueuedIsSynchronous ==
    [][\A j \in JobIds :
         (job[j].status = "Queued" /\ ~job[j].cancel_event
            /\ job'[j].cancel_event) =>
           /\ job'[j].status = "Cancelled"
           /\ job'[j].error.code = "JOB_CANCELLED"
           /\ \A k \in JobIds \ {j} : job'[k] = job[k] /\ proc'[k] = proc[k]
           /\ UNCHANGED <<jobs, order, semaphore, pc, slot_acquired, exc, cmd>>]_vars

\* A job cancelled while Queued next to a job that is Running past Resolving.
CancelQueuedIsSynchronousWitness ==
    \E j, k \in JobIds :
        /\ j # k
        /\ job[j].status = "Cancelled"
        /\ job[j].error.message = BeforeStart
        /\ job[k].status = "Running"
        /\ job[k].stage = "Transcribing"

\* C6: a job that becomes Cancelled while it is Queued, its worker is in the
\* admission loop and no permit is free, gets the message "Job cancelled
\* while waiting for execution slot."
CancelledWaitingMessage ==
    [][\A j \in JobIds :
         (job[j].status = "Queued" /\ pc[j] \in {"wait", "acquire"}
            /\ semaphore = 0 /\ job'[j].status = "Cancelled") =>
           job'[j].error.message = WhileWaiting]_vars

\* C7: the worker of a job that was cancelled before the worker held a
\* permit never acquires one and never launches a child process.
CancelledWaitingNeverAdmitted ==
    [][\A j \in JobIds :
         (job[j].status = "Cancelled" /\ pc[j] \in Admission) =>
           /\ ~slot_acquired'[j]
           /\ proc'[j] # "running"]_vars

\* C8: while a terminal job stays in the store its view does not change,
\* and a cancel_job call on it changes nothing in the store and returns
\* that view.
CancelTerminalIdempotent ==
    [][\A j \in JobIds :
         (j \in jobs /\ _is_terminal(j)) =>
           /\ _to_response(j)' = _to_response(j)
           /\ cancel_job(j) =>
                /\ UNCHANGED <<jobs, order, job>>
                /\ cancel_job_result(j)' = cancel_job_result(j)
                /\ cancel_job_result(j) = _to_response(j)]_vars

\* A job in the store that cancel_job made Cancelled, last updated before
\* the current time, so that later calls find it terminal.
CancelTerminalIdempotentWitness ==
    \E j \in JobIds :
        /\ j \in jobs
        /\ job[j].status = "Cancelled"
        /\ job[j].error.message = BeforeStart
        /\ now > job[j].updated_ts

\* C9: a Running job whose cancel signal is set does not go on to
\* WritingTranscript, WritingAssets or Done.
NoStageAfterCancel ==
    [][\A j \in JobIds :
         (job[j].status = "Running" /\ job[j].cancel_event
            /\ job'[j].stage # job[j].stage) =>
           job'[j].stage \notin {"WritingTranscript", "WritingAssets", "Done"}]_vars

\* C10: progress never decreases and stays within [0, 1].
ProgressMonotone ==
    [][\A j \in JobIds :
         /\ job'[j].progress >= job[j].progress
         /\ job'[j].progress \in 0..100]_vars

\* A job cancelled, and a job failed, after GeneratingDrafts was entered.
ProgressMonotoneWitness ==
    \E j \in JobIds :
        /\ job[j].status \in {"Cancelled", "Failed"}
        /\ job[j].progress >= 80

\* C11: progress is 1.0 exactly when the status is Done, and a step that
\* makes a job Failed or Cancelled keeps the progress it had, below 1.0.
ProgressOneIffDone ==
    /\ [](\A j \in JobIds : (job[j].progress = 100) <=> (job[j].status = "Done"))
    /\ [][\A j \in JobIds :
            (job'[j].status \in {"Failed", "Cancelled"}
               /\ job[j].status \notin Terminal) =>
              /\ job'[j].progress = job[j].progress
              /\ job'[j].progress < 100]_vars

\* A job that ended Done next to a job that failed in WritingAssets.
ProgressOneIffDoneWitness ==
    \E j, k \in JobIds :
        /\ job[j].status = "Done"
        /\ job[j].progress = 100
        /\ job[k].status = "Failed"
        /\ job[k].progress = 92

\* The order in which _execute_pipeline enters the stages, and the order of
\* the statuses.
StageOrder ==
    <<"Resolving", "DownloadingAudio", "ConvertingAudio", "Transcribing",
      "WritingTranscript", "ExtractingHooks", "GeneratingDrafts",
      "WritingAssets", "Done">>

StageRank(stage) ==
    IF stage \in {"Failed", "Cancelled"}
    THEN Len(StageOrder) + 1
    ELSE CHOOSE i \in 1..Len(StageOrder) : StageOrder[i] = stage

StatusRank(status) ==
    IF status = "Queued" THEN 0 ELSE IF status = "Running" THEN 1 ELSE 2

\* C12: the stage of a job only moves forward along the pipeline order or
\* jumps to Failed/Cancelled, its status only moves Queued, Running,
\* terminal, and a terminal stage or status is never left.
StageAndStatusForward ==
    [][\A j \in JobIds :
         /\ StageRank(job'[j].stage) >= StageRank(job[j].stage)
         /\ StatusRank(job'[j].status) >= StatusRank(job[j].status)
         /\ job[j].stage \in Terminal => job'[j].stage = job[j].stage
         /\ job[j].status \in Terminal => job'[j].status = job[j].status]_vars

\* A job that went through every stage, next to one cancelled on the way.
StageAndStatusForwardWitness ==
    \E j, k \in JobIds :
        /\ job[j].stage = "Done"
        /\ job[k].stage = "Cancelled"
        /\ job[k].progress = 20

\* C13: the store never holds more than historyMax jobs. Stated for the
\* states in which every job of the store is terminal, so that no active
\* job stands in the way of the eviction.
StoreBounded ==
    (\A j \in jobs : _is_terminal(j)) => Cardinality(jobs) <= max_history

\* C14: a Queued or Running job of the store is returned by get_job and is
\* still in the store, and in the FIFO, after any step.
EvictionSparesActive ==
    [][\A j \in JobIds :
         (j \in jobs /\ ~_is_terminal(j)) =>
           /\ get_job_result(j) = _to_response(j)
           /\ j \in jobs'
           /\ \E i \in 1..Len(order') : order'[i] = j]_vars

\* The older job is still active at the head of a FIFO longer than the cap,
\* and the younger, terminal one has been evicted.
EvictionSparesActiveWitness ==
    \E j, k \in JobIds :
        /\ j < k
        /\ j \in jobs
        /\ ~_is_terminal(j)
        /\ k <= next_id
        /\ k \notin jobs

\* An http(s) URL whose host is youtube.com or youtu.be.
HostIsYouTube(url) ==
    LET u == lower(strip(url))
    IN /\ Len(u) >= 2
       /\ u[1] \in {"http://", "https://"}
       /\ u[2] \in {"youtube.com/", "youtu.be/"}

\* C15: start_job with a URL that is not an http(s) YouTube URL raises
\* INVALID_URL, with a YouTube URL and a blank asrModel it raises
\* ASR_MODEL_UNAVAILABLE, and in both cases the store, the id counter, the
\* workers and the semaphore are left as they were.
StartJobRejects ==
    [][\A u \in Urls, m \in AsrModels :
         (start_job(u, m) /\ (~HostIsYouTube(u) \/ strip(m) = <<>>)) =>
           /\ starting'.raised = IF ~HostIsYouTube(u) THEN "INVALID_URL"
                                 ELSE "ASR_MODEL_UNAVAILABLE"
           /\ UNCHANGED <<jobs, order, job, pc, next_id, semaphore>>]_vars

\* C16: the view a successful start_job returns shows the new job Queued,
\* in stage Resolving, with progress 0.
StartJobReturnsQueued ==
    starting.id \in JobIds =>
      /\ start_job_result.status = "Queued"
      /\ start_job_result.stage = "Resolving"
      /\ start_job_result.progress = 0

\* C17: a view returned by get_job shows the fields of the resolution step
\* together: the video id, the output directory and the artifact paths are
\* all set or all unset.
NoTornView ==
    \A j \in JobIds :
        (j <= next_id /\ j # starting.id /\ get_job_result(j) # None) =>
          /\ (get_job_result(j).videoId = "") = (get_job_result(j).outputDir = "")
          /\ (get_job_result(j).outputDir = "")
               = (get_job_result(j).transcriptPath = "")

\* C18: a typed failure other than JOB_CANCELLED that is in flight in the
\* worker of a Running job, LLM_REQUEST_FAILED included, leaves the worker
\* only by making the job Failed with the code of that failure.
TypedFailureKeepsCode ==
    [][\A j \in JobIds :
         (job[j].status = "Running"
            /\ exc[j].code \notin {"", "JOB_CANCELLED", "Exception"}
            /\ exc'[j] # exc[j]) =>
           /\ job'[j].status = "Failed"
           /\ job'[j].error.code = exc[j].code]_vars

\* C19: a job is Cancelled exactly when its error code is JOB_CANCELLED; a
\* Failed job has an error with another code; a Done job has no error and
\* has a summary; a Queued or Running job has neither.
StatusMatchesResult ==
    \A j \in JobIds :
        /\ (job[j].status = "Cancelled") <=> (job[j].error.code = "JOB_CANCELLED")
        /\ job[j].status = "Failed" =>
              job[j].error.code \notin {"", "JOB_CANCELLED"}
        /\ job[j].status = "Done" =>
              (job[j].error = NoError /\ job[j].summary # "")
        /\ job[j].status \in {"Queued", "Running"} =>
              (job[j].error = NoError /\ job[j].summary = "")

\* A job that ended Done next to a job cancelled while it ran.
StatusMatchesResultWitness ==
    \E j, k \in JobIds :
        /\ job[j].status = "Done"
        /\ job[k].status = "Cancelled"
        /\ job[k].error.message = "Job cancelled by user."

\* C20: while the timeout error of a command is in flight and no cancel was
\* signalled, the child process is not running and the worker only heads
\* for its except clause (no second Popen); the except clause makes the job
\* Failed with the failure code of that command and details.timeoutSec.
TimeoutFailsWithStageCode ==
    /\ [](\A j \in JobIds :
            exc[j].details = "timeoutSec" =>
              /\ proc[j] # "running"
              /\ pc[j] \in {"detach", "handler"})
    /\ [][\A j \in JobIds :
            (exc[j].details = "timeoutSec" /\ ~job[j].cancel_event
               /\ pc[j] = "handler" /\ pc'[j] # "handler") =>
              /\ pc'[j] = "finally"
              /\ job'[j].status = "Failed"
              /\ job'[j].error.details = "timeoutSec"
              /\ job'[j].error.code =
                    IF cmd[j] = "download" THEN "YOUTUBE_DOWNLOAD_FAILED"
                    ELSE IF cmd[j] = "convert" THEN "AUDIO_CONVERT_FAILED"
                    ELSE "INVALID_URL"]_vars

\* A job failed by the timeout of its conversion, with no cancel signalled.
TimeoutFailsWithStageCodeWitness ==
    \E j \in JobIds :
        /\ job[j].status = "Failed"
        /\ job[j].error.code = "AUDIO_CONVERT_FAILED"
        /\ job[j].error.details = "timeoutSec"
        /\ ~job[j].cancel_event
        /\ proc[j] = "none"

\* A JSON object can be extracted from a response: the stripped text, the
\* text inside its first code fence, or the text from its first "{" to its
\* last "}" is one.
JsonObjectIn(text) ==
    LET IsObject(s) == SelectSeq(s, LAMBDA t : t # " ")
                         \in {<<"{", "}">>, <<"{", "members", "}">>}
        Fence(i) == text[i] \in {"fence", "fence json"}
    IN \/ IsObject(text)
       \/ \E i, j \in 1..Len(text) :
            /\ i < j /\ Fence(i) /\ Fence(j)
            /\ \A k \in 1..(j - 1) : k # i => ~Fence(k)
            /\ IsObject(SubSeq(text, i + 1, j - 1))
       \/ \E i, j \in 1..Len(text) :
            /\ i < j /\ text[i] = "{" /\ text[j] = "}"
            /\ \A k \in 1..(i - 1) : text[k] # "{"
            /\ \A k \in (j + 1)..Len(text) : text[k] # "}"
            /\ IsObject(SubSeq(text, i, j))

\* C21: in _extract_hooks with a non-empty transcript, when the first
\* request returns content and no cancel is seen, the repair request is
\* sent if and only if no JSON object can be extracted from that content
\* (fenced JSON: one request in all); there are never more than two
\* requests; and a repair response without a JSON object ends in
\* HOOKS_EXTRACTION_FAILED with subcode HOOKS_JSON_INVALID.
HooksRepairIffNoJson ==
    (/\ gen.fn = "_extract_hooks"
     /\ gen.out # None
     /\ strip(gen.args.transcript) # <<>>)
    => LET first == gen.args.responses[1]
           repaired == gen.args.responses[2]
       IN /\ gen.out.calls <= 2
          /\ (gen.args.cancel = 0 /\ ~first.failed)
               => (gen.out.calls = 2 <=> ~JsonObjectIn(first.content))
          /\ (gen.args.cancel = 0 /\ ~first.failed
               /\ first.content = FencedJson)
               => gen.out.calls = 1
          /\ (gen.out.calls = 2 /\ ~repaired.failed
               /\ ~JsonObjectIn(repaired.content))
               => /\ gen.out.error.code = "HOOKS_EXTRACTION_FAILED"
                  /\ gen.out.error.details = "HOOKS_JSON_INVALID"

\* The first response is prose, the repair request is sent, its response
\* is prose again and the call fails.
HooksRepairIffNoJsonWitness ==
    /\ gen.fn = "_extract_hooks"
    /\ gen.out # None
    /\ gen.args.responses[1] = [failed |-> FALSE, content |-> <<"text">>]
    /\ gen.args.responses[2] = [failed |-> FALSE, content |-> <<"text">>]
    /\ gen.out.calls = 2
    /\ gen.out.error.details = "HOOKS_JSON_INVALID"

\* C22: every hooks payload _extract_hooks returns (the payload that is
\* written to hooks.json) has hasTimestamps = false and exactly three
\* hooks, ranked 1, 2, 3 in list order.
PersistedHooksAreThreeRanked ==
    (gen.fn = "_extract_hooks" /\ gen.out # None /\ gen.out.error = NoExc)
    => /\ gen.out.result.hasTimestamps = FALSE
       /\ Len(gen.out.result.hooks) = 3
       /\ \A i \in 1..3 : gen.out.result.hooks[i].rank = i

\* A response whose first entry is not an object and whose next three are
\* hooks: the returned hooks are entries 2 to 4, ranked from 1.
PersistedHooksAreThreeRankedWitness ==
    /\ gen.fn = "_extract_hooks"
    /\ gen.out # None
    /\ gen.out.error = NoExc
    /\ Len(gen.args.payload.hooks) = 4
    /\ ~gen.args.payload.hooks[1].is_dict
    /\ \A i \in 1..3 : gen.out.result.hooks[i].hook = <<"Hook">>

\* C23: every hook of every hooks payload _extract_hooks returns carries
\* two or three supporting_moments.
EveryHookHasTwoOrThreeMoments ==
    (gen.fn = "_extract_hooks" /\ gen.out # None /\ gen.out.error = NoExc)
    => \A i \in 1..Len(gen.out.result.hooks) :
         Len(gen.out.result.hooks[i].supporting_moments) \in 2..3

\* C24: every X thread _validate_x_thread returns has exactly five posts,
\* post N starts with "[N/5] " (its marker has the digit N and is followed
\* by a space and a body), and no post is longer than 280 characters.
AcceptedXThreadIsWellFormed ==
    (gen.fn = "_validate_x_thread" /\ gen.out # None /\ gen.out.error = NoExc)
    => /\ Len(gen.out.result) = 5
       /\ \A n \in 1..Len(gen.out.result) :
            /\ gen.out.result[n].digit = n
            /\ gen.out.result[n].body > 0
            /\ PostLen(gen.out.result[n]) <= 280

\* C25: when the section is not a valid thread and the repair response
\* does not hold exactly five posts, _validate_x_thread raises
\* DRAFTS_GENERATION_FAILED with subcode DRAFTS_VALIDATION_FAILED and
\* returns no thread.
XThreadRepairWithoutFivePostsFails ==
    (/\ gen.fn = "_validate_x_thread"
     /\ gen.out # None
     /\ gen.args.cancel = 0
     /\ ~_x_thread_within_limit(
           _normalize_x_thread_posts(_extract_x_thread_posts(gen.args.text)))
     /\ ~gen.args.responses[1].failed
     /\ Len(_extract_x_thread_posts(gen.args.responses[1].content)) # 5)
    => /\ gen.out.error.code = "DRAFTS_GENERATION_FAILED"
       /\ gen.out.error.details = "DRAFTS_VALIDATION_FAILED"
       /\ gen.out.result = None

AcceptedNewsletterIsUsable ==
    (/\ gen.fn = "_validate_newsletter_summary"
     /\ gen.out # None
     /\ gen.out.error = NoExc)
    => /\ ~contains(gen.out.result, "===")
       /\ chars(gen.out.result) >= 320
       /\ \E i \in 1..Len(gen.out.result) :
            gen.out.result[i] \in {"## ", "### "}
       /\ \E i \in 1..Len(gen.out.result) :
            gen.out.result[i] \in {"\n- ", "\n* "}

\* C28: _validate_linkedin_carousel and _validate_newsletter_summary raise
\* nothing but JOB_CANCELLED, and only when cancel_event is set; when the
\* section is invalid and the repair request fails or answers with an
\* invalid section, they return the template.
SectionValidationNeverFails ==
    (/\ gen.fn \in {"_validate_linkedin_carousel",
                    "_validate_newsletter_summary"}
     /\ gen.out # None)
    => LET repaired == gen.args.responses[1]
           invalid ==
               IF gen.fn = "_validate_linkedin_carousel"
               THEN Len(_extract_linkedin_slides(repaired.content)) \notin 5..8
               ELSE ~_newsletter_is_usable(strip(repaired.content))
           template ==
               IF gen.fn = "_validate_linkedin_carousel"
               THEN _build_fallback_linkedin_carousel(gen.args.hooks_data)
               ELSE _build_fallback_newsletter_summary(gen.args.title,
                                                       gen.args.hooks_data)
       IN /\ gen.out.error \in {NoExc, Cancelled}
          /\ gen.out.error = Cancelled => gen.args.cancel # 0
          /\ (gen.out.calls = 1 /\ (repaired.failed \/ invalid))
               => /\ gen.out.error = NoExc
                  /\ gen.out.path = "template"
                  /\ gen.out.result = template

\* The repair request of an unusable newsletter section fails and the
\* template is returned.
SectionValidationNeverFailsWitness ==
    /\ gen.fn = "_validate_newsletter_summary"
    /\ gen.out # None
    /\ gen.args.responses[1].failed
    /\ gen.out.calls = 1
    /\ gen.out.path = "template"

\* The positions of the worker at which a repair or retry request is about
\* to be made, and the except clauses of the generation stage.
RetryCalls ==
    {"hooks_repair", "drafts_repair", "separately_linkedin",
     "separately_x_thread", "separately_newsletter", "repair_linkedin",
     "repair_x", "repair_newsletter"}

ExceptClauses ==
    {"hooks_except", "drafts_except", "validate_linkedin_except",
     "validate_x_except", "validate_newsletter_except"}

\* C29: when the cancel signal is set as a repair or retry request is about
\* to be made, the worker raises JOB_CANCELLED instead of sending it; the
\* except clauses pass that error on without a fallback or a truncation,
\* the worker records it, and the job ends Cancelled with JOB_CANCELLED.
CancelledRetryShortCircuits ==
    /\ [][\A j \in JobIds :
            /\ (pc[j] \in RetryCalls /\ job[j].cancel_event
                  /\ pc'[j] # pc[j]) =>
                 /\ exc'[j] = Cancelled
                 /\ pc'[j] \in ExceptClauses
            /\ (pc[j] \in ExceptClauses /\ exc[j] = Cancelled
                  /\ pc'[j] # pc[j]) =>
                 /\ exc'[j] = Cancelled
                 /\ pc'[j] \in {"drafts_except", "handler"}
            /\ (pc[j] = "handler" /\ exc[j] = Cancelled
                  /\ pc'[j] # pc[j]) =>
                 /\ job'[j].status = "Cancelled"
                 /\ job'[j].error.code = "JOB_CANCELLED"]_vars
    /\ \A j \in JobIds :
         (pc[j] \in RetryCalls /\ job[j].cancel_event)
           ~> (/\ pc[j] = "finished"
               /\ job[j].status = "Cancelled"
               /\ job[j].error.code = "JOB_CANCELLED")

\* The repair request of the X thread found the signal set: JOB_CANCELLED
\* is in flight in the except clause of the validator of a Running job.
CancelledRetryShortCircuitsWitness ==
    \E j \in JobIds :
        /\ pc[j] = "validate_x_except"
        /\ exc[j] = Cancelled
        /\ job[j].cancel_event
        /\ job[j].status = "Running"

\* The positions of the worker inside _run_command: from Popen to the
\* finally clause.
ProcessRun == {"popen", "attach", "poll", "communicate", "detach"}

\* C30: a process is attached to a job only while its worker is between
\* _attach_process and the finally clause of _run_command, whatever ends the
\* run (exit code 0 or not, timeout, cancel); outside a process run and
\* after the worker finished the job has no attached process and no child,
\* so that a command is launched only when none is attached.
NoProcessOutsideRun ==
    \A j \in JobIds :
        /\ job[j].active_process =>
              pc[j] \in {"poll", "communicate", "detach"}
        /\ pc[j] \notin ProcessRun =>
              (~job[j].active_process /\ proc[j] = "none")
        /\ pc[j] = "popen" => (~job[j].active_process /\ proc[j] = "none")

\* A worker that finished after the timeout of its command, next to a
\* worker in its except clause after a cancel ended its download.
NoProcessOutsideRunWitness ==
    \E j, k \in JobIds :
        /\ pc[j] = "finished"
        /\ job[j].status = "Failed"
        /\ job[j].error.details = "timeoutSec"
        /\ pc[k] = "handler"
        /\ exc[k] = Cancelled
        /\ job[k].stage = "DownloadingAudio"
        /\ ~job[k].active_process

\* An id with nothing to keep: missing, empty, or made only of underscores
\* and of characters outside [A-Za-z0-9_-].
SanitizesToEmpty(id) == \A i \in 1..Len(id) : id[i] \in {"_", "!"}

\* C31: a video id that sanitizes to the empty string fails the job with
\* INVALID_URL and no output directory is made; any other id gives a
\* videoId of 1 to 96 characters of [A-Za-z0-9_-].
EmptyVideoIdIsInvalidUrl ==
    (gen.fn = "_resolve_video_id" /\ gen.out # None) =>
       IF SanitizesToEmpty(gen.args.id)
       THEN /\ gen.out.error.code = "INVALID_URL"
            /\ gen.out.output_dir = None
       ELSE /\ gen.out.error = NoExc
            /\ Len(gen.out.video_id) \in 1..MaxFolderLen
            /\ \A i \in 1..Len(gen.out.video_id) :
                 gen.out.video_id[i] \in {"a", "-", "_"}

\* C32: whatever the interleaving of the requests, the registry holds at
\* most one provider per kind and resolved key, built once, and a request
\* that left get_stt or get_tts holds the provider cached under its key.
OneProviderPerKey ==
    /\ \A p, q \in 1..Len(srv.providers) :
         (/\ srv.providers[p].kind = srv.providers[q].kind
          /\ srv.providers[p].key = srv.providers[q].key) => p = q
    /\ \A t \in Threads :
         srv.th[t].pc \in {"release", "probe", "probe_check", "warmup",
                           "probe_release"} =>
           /\ srv.th[t].provider # 0
           /\ srv.th[t].provider = srv._cache[srv.th[t].kind][srv.th[t].key]
           /\ srv.providers[srv.th[t].provider].key = srv.th[t].key
           /\ srv.providers[srv.th[t].provider].kind = srv.th[t].kind

\* Two requests that named the engine differently hold the same provider
\* while a second provider exists under another key.
OneProviderPerKeyWitness ==
    /\ Len(srv.providers) = 2
    /\ \E t, u \in Threads :
         /\ t # u
         /\ srv.th[t].pc = "probe"
         /\ srv.th[u].pc = "probe"
         /\ srv.th[t].provider = srv.th[u].provider

\* C33: the warm-up of a provider runs at most once for the calls with
\* force = false, never twice at the same time, and only after a file probe
\* that reported installed; once a result is cached, a call with
\* force = false returns it, ready or not, and leaves it in place.
InitProbeRunsOnce ==
    /\ [](\A p \in 1..Len(srv.providers) :
            /\ srv.providers[p].warmups.plain <= 1
            /\ \A t, u \in Threads :
                 (/\ srv.th[t].pc = "warmup" /\ srv.th[u].pc = "warmup"
                  /\ srv.th[t].provider = p /\ srv.th[u].provider = p) => t = u)
    /\ [](\A t \in Threads : srv.th[t].pc = "warmup" => srv.th[t].installed)
    /\ [][\A t \in Threads :
            LET p == srv.th[t].provider
            IN (/\ srv.th[t].pc = "probe_check"
                /\ srv'.th[t].pc # "probe_check"
                /\ ~srv.th[t].force
                /\ srv.providers[p]._init_cache # None) =>
                 /\ srv'.th[t].pc = "probe_release"
                 /\ srv'.th[t].result = srv.providers[p]._init_cache
                 /\ srv'.providers[p] = srv.providers[p]]_vars

\* A call with force = false is handed a cached not-ready result of a
\* provider whose warm-up ran while another call waits for the probe lock.
InitProbeRunsOnceWitness ==
    \E t, u \in Threads :
        /\ t # u
        /\ srv.th[t].pc = "probe_release"
        /\ ~srv.th[t].force
        /\ ~srv.th[t].installed
        /\ srv.th[t].result = InitProbeResult(FALSE)
        /\ srv.providers[srv.th[t].provider].warmups.plain = 1
        /\ srv.th[u].pc = "probe"
        /\ srv.th[u].provider = srv.th[t].provider

\* C35: a first response that parses to an object whose hooks value is
\* missing, is no array or is an empty array is handled like a failed
\* parse: the repair request is made, and without a usable array the call
\* ends in HOOKS_EXTRACTION_FAILED with no payload returned.
InvalidHooksValueIsRepaired ==
    (/\ gen.fn = "_extract_hooks"
     /\ gen.out # None
     /\ gen.args.cancel = 0
     /\ strip(gen.args.transcript) # <<>>
     /\ ~gen.args.responses[1].failed
     /\ _try_parse_json_object(gen.args.responses[1].content) # None
     /\ \/ ~_try_parse_json_object(gen.args.responses[1].content).members
        \/ ~gen.args.payload.hooks_is_list
        \/ gen.args.payload.hooks = <<>>)
    => /\ gen.out.calls = 2
       /\ gen.out.error.code = "HOOKS_EXTRACTION_FAILED"
       /\ gen.out.result = None

\* C36: with ST_YOUTUBE_DOWNLOAD_TIMEOUT_SEC = 1 the download that outlives
\* its deadline fails with YOUTUBE_DOWNLOAD_FAILED whose details carry
\* timeoutSec = 1 and the captured stdout and stderr.
DownloadTimeoutOfOneSecond ==
    (/\ gen.fn = "_run_command"
     /\ gen.out # None
     /\ gen.args.env = [kind |-> "int", value |-> 1])
    => /\ gen.out.error.code = "YOUTUBE_DOWNLOAD_FAILED"
       /\ gen.out.timeoutSec = 1
       /\ {"timeoutSec", "stdout", "stderr"} \subseteq gen.out.keys

\* C34: a terminal job whose age since its last update exceeds the TTL is
\* absent for every public operation: get_job and cancel_job both return
\* null for it.
ExpiredJobIsAbsent ==
    \A j \in StaleIds :
        (j <= next_id /\ j # starting.id) =>
          /\ get_job_result(j) = None
          /\ cancel_job_result(j) = None


\* C37: the store lock is held only for field updates and FIFO bookkeeping.
\* cancel_job runs from its first to its last statement with the lock held,
\* so it never waits there for a child process to exit: the child of the job
\* is in the same condition when cancel_job returns as when it was called,
\* and no get_job or stage update is blocked behind its termination.
CancelJobNeverWaitsForChild ==
    [][\A j \in JobIds : cancel_job(j) => proc'[j] = proc[j]]_vars


\* Workers that hold a permit of the semaphore.
Holders == {j \in JobIds : slot_acquired[j]}

\* C38: execution slots are never leaked or over-released. A worker holds a
\* permit only between its successful acquire and its finally clause, which
\* releases it exactly once on every exit path, so the free slots are always
\* between 0 and maxConcurrentJobs, free and held slots add up to
\* maxConcurrentJobs, and all slots are free once every worker has finished.
SlotsNeverLeak ==
    /\ semaphore \in 0..max_concurrent
    /\ semaphore + Cardinality(Holders) = max_concurrent
    /\ \A j \in Holders :
          pc[j] \notin {"none", "start", "wait", "acquire", "wait_cancelled",
                        "finished"}
    /\ (\A j \in JobIds : pc[j] \in {"none", "finished"}) =>
          semaphore = max_concurrent

\* Every worker has finished, one after a cancellation and one after running
\* to Done, and all slots are free again.
SlotsNeverLeakWitness ==
    \E j, k \in JobIds :
        /\ pc[j] = "finished" /\ pc[k] = "finished"
        /\ job[j].status = "Cancelled"
        /\ job[k].status = "Done"
        /\ semaphore = max_concurrent


\* The places of _extract_hooks and _generate_drafts in the order the code
\* passes them; every other place comes after them.
GenerationOrder ==
    <<"hooks_call", "hooks_repair", "stage_drafts",
      "drafts_call", "drafts_repair",
      "separately_linkedin", "separately_x_thread", "separately_newsletter",
      "validate_linkedin", "repair_linkedin", "validate_linkedin_except",
      "validate_x", "repair_x", "validate_x_except",
      "validate_newsletter", "repair_newsletter",
      "validate_newsletter_except", "stage_assets">>

Place(p) ==
    IF \E i \in 1..Len(GenerationOrder) : GenerationOrder[i] = p
    THEN CHOOSE i \in 1..Len(GenerationOrder) : GenerationOrder[i] = p
    ELSE Len(GenerationOrder) + 1

HooksPlaces == {"hooks_call", "hooks_repair", "hooks_except", "stage_drafts"}

\* C39: the generation calls of a job are bounded and no section is repaired
\* twice: at most 2 requests are sent during ExtractingHooks and at most 8
\* during GeneratingDrafts (combined, split repair, three per-section
\* requests, one repair per section), and every request moves the worker
\* forward, so no request site is passed a second time.
GenerationCallsBounded ==
    /\ [](\A j \in JobIds :
            /\ llm_calls[j] <= 8
            /\ pc[j] \in HooksPlaces => llm_calls[j] <= 2
            /\ pc[j] = "repair_linkedin" => llm_calls[j] <= 5
            /\ pc[j] = "repair_x" => llm_calls[j] <= 6
            /\ pc[j] = "repair_newsletter" => llm_calls[j] <= 7)
    /\ [][\A j \in JobIds :
            llm_calls'[j] > llm_calls[j] =>
              /\ llm_calls'[j] = llm_calls[j] + 1
              /\ Place(pc'[j]) > Place(pc[j])]_vars

\* A job that has sent all 8 requests of GeneratingDrafts, the last one the
\* newsletter repair, and is about to write its assets.
GenerationCallsBoundedWitness ==
    \E j \in JobIds :
        /\ pc[j] = "stage_assets"
        /\ llm_calls[j] = 8
        /\ job[j].stage = "GeneratingDrafts"
        /\ job[j].status = "Running"


\* C40: error.code = ASR_TRANSCRIBE_FAILED is recorded exactly for failures
\* of the STT callback: whenever the except clauses of the worker end a job
\* as Failed with this code, the job was in the Transcribing stage, and an
\* unexpected failure in any other stage is not reported with it.
AsrFailedOnlyWhileTranscribing ==
    [][\A j \in JobIds :
         (/\ handler(j)
          /\ ~_is_terminal(j)
          /\ job'[j].status = "Failed"
          /\ job'[j].error.code = "ASR_TRANSCRIBE_FAILED") =>
           job[j].stage = "Transcribing"]_vars

====
